---- MODULE Spec2Model ----
(***************************************************************************)
(* Model of the typed value-passing layer of surrealism: the guest         *)
(* allocator exports, the memory controllers, the transfer engine          *)
(* (encode/decode of Value and Kind), the guest export stubs, the host     *)
(* controller's invoke and the host-capability imports.                    *)
(*                                                                         *)
(* Machine words.  The guest is a wasm32 module: u32, i32 and usize are    *)
(* 32 bits wide.  The model keeps every conversion between them (as u32,   *)
(* as i32, the isize::MAX test of Layout) but narrows the word to PtrBits  *)
(* bits, so that every intermediate value fits the bounded integers of   *)
(* the model; the sign bit is bit PtrBits-1 and -1 is the all-ones word.   *)
(***************************************************************************)
EXTENDS Integers, Sequences, FiniteSets, TLC

VARIABLES mem, pc, cur

vars == <<mem, pc, cur>>

(***************************************************************************)
(* Bounds of the model.                                                    *)
(***************************************************************************)
PtrBits == 16
NumSlots == 8
MaxOps == 3
MaxLen == 2

(***************************************************************************)
(* Machine words.                                                          *)
(***************************************************************************)
U32Mod == 2 ^ PtrBits
SignBit == 2 ^ (PtrBits - 1)
ISizeMax == SignBit - 1
U32Max == U32Mod - 1

\* `x as i32` for a u32 x
AsI32(u) == IF u >= SignBit THEN u - U32Mod ELSE u

\* `x as u32` for an i32 x
AsU32(i) == IF i < 0 THEN i + U32Mod ELSE i

\* `x as u32` for a usize x of the guest (wrapping product of two usizes)
WrapU32(n) == n % U32Mod

IsPow2(n) == \E k \in 0..(PtrBits - 1) : n = 2 ^ k

(***************************************************************************)
(* Sizes and alignments of the #[repr(C)] transfer types (wasm32 layout:   *)
(* u32 discriminant, payload union aligned to its widest member).          *)
(***************************************************************************)
SizeOfValue == 32
SizeOfKind == 32
SizeOfKeyValuePair == 40
SizeOfTransferredArray == 8
SizeOfTransferred == 4

SizeOf(ty) ==
    CASE ty = "u8" -> 1
      [] ty = "bool" -> 1
      [] ty = "unit" -> 0
      [] ty = "i64" -> 8
      [] ty = "u64" -> 8
      [] ty = "f64" -> 8
      [] ty = "Transferred" -> SizeOfTransferred
      [] ty = "TransferredArray" -> SizeOfTransferredArray
      [] ty = "Strand" -> SizeOfTransferredArray
      [] ty = "Value" -> SizeOfValue
      [] ty = "Kind" -> SizeOfKind
      [] ty = "KeyValuePair" -> SizeOfKeyValuePair
      [] ty = "KeyValuePair<Kind>" -> SizeOfTransferredArray + SizeOfKind
      [] ty = "COption<Strand>" -> 4 + SizeOfTransferredArray
      [] ty = "COption<Value>" -> 8 + SizeOfValue
      [] ty = "CResult<Value>" -> 8 + SizeOfValue
      [] ty = "CResult<COption<Value>>" -> 8 + 8 + SizeOfValue
      [] ty = "CResult<TransferredArray>" -> 4 + SizeOfTransferredArray
      [] ty = "CResult<unit>" -> 4 + SizeOfTransferredArray
      [] ty = "CResult<bool>" -> 4 + SizeOfTransferredArray
      [] ty = "CResult<u64>" -> 8 + 8
      [] ty = "CRange<Strand>" -> 2 * (4 + SizeOfTransferredArray)

AlignOf(ty) ==
    CASE ty \in {"u8", "bool", "unit"} -> 1
      [] ty \in {"Transferred", "TransferredArray", "Strand", "COption<Strand>", "CRange<Strand>",
                 "CResult<TransferredArray>", "CResult<unit>", "CResult<bool>"} -> 4
      [] OTHER -> 8

(***************************************************************************)
(* Guest linear memory and the guest heap.  The heap hands out blocks from *)
(* NumSlots slots of SlotSize bytes; half of the slots lie at or above the *)
(* sign bit of a pointer.  A cell remembers the layout it was allocated    *)
(* with and the items written to it; after a free the items stay in        *)
(* memory (stale) until the slot is allocated again.                       *)
(***************************************************************************)
SlotSize == 2 ^ 9
Slots == 1..NumSlots
HeapBase == SignBit - (NumSlots \div 2) * SlotSize
SlotAddr(i) == HeapBase + (i - 1) * SlotSize
SlotAddrs == {SlotAddr(i) : i \in Slots}
SlotOf(p) == CHOOSE i \in Slots : SlotAddr(i) = p
MemLen == HeapBase + NumSlots * SlotSize

FreeCell == [live |-> FALSE, len |-> 0, align |-> 1, data |-> <<>>]
ForeignCell == [live |-> TRUE, len |-> 8, align |-> 8, data |-> <<>>]

\* a fresh instance whose own data already occupies the first occ slots;
\* zeroNull: whether the heap of this build answers a zero-sized request
\* (undefined for std::alloc::alloc) with null or with a minimal block
NewMem(occ, zeroNull) ==
    [cell |-> [i \in Slots |-> IF i <= occ THEN ForeignCell ELSE FreeCell],
     log |-> <<>>,
     ub |-> FALSE,
     zeroNull |-> zeroNull]

LiveSet(m) == {SlotAddr(i) : i \in {j \in Slots : m.cell[j].live}}
IsLive(m, p) == p \in LiveSet(m)
FreeSlots(m) == {i \in Slots : ~m.cell[i].live}
LowestFree(m) == CHOOSE i \in FreeSlots(m) : \A j \in FreeSlots(m) : i <= j

Logged(m, ev) == [m EXCEPT !.log = Append(@, ev)]

\* let r = v; the rest of the function is K(r)
Bind(v, K(_)) == K(v)

(***************************************************************************)
(* std::alloc::Layout::from_size_align                                     *)
(***************************************************************************)
LayoutOk(size, align) ==
    /\ align > 0
    /\ IsPow2(align)
    /\ size <= ISizeMax - (align - 1)

\* std::alloc::alloc on the guest heap: the address of a block that aliases
\* no live block, or null (0) when the heap cannot serve the request
HeapAlloc(m, len, align) ==
    IF \/ FreeSlots(m) = {}
       \/ len > SlotSize
       \/ (len = 0 /\ m.zeroNull)
    THEN [m |-> m, ptr |-> 0]
    ELSE LET i == LowestFree(m)
             c == [live |-> TRUE, len |-> len, align |-> align, data |-> <<>>]
         IN [m |-> Logged([m EXCEPT !.cell[i] = c],
                          [op |-> "alloc", ptr |-> SlotAddr(i), len |-> len, align |-> align]),
             ptr |-> SlotAddr(i)]

\* std::alloc::dealloc: releases the block; releasing an address that holds
\* no live block is undefined behaviour of the heap (recorded in ub)
HeapDealloc(m, ptr, len, align) ==
    LET ev == [op |-> "free", ptr |-> ptr, len |-> len, align |-> align]
    IN IF IsLive(m, ptr)
       THEN Logged([m EXCEPT !.cell[SlotOf(ptr)].live = FALSE], ev)
       ELSE Logged([m EXCEPT !.ub = TRUE], ev)

(***************************************************************************)
(* The guest allocator exports (surrealism/src/memory.rs).                 *)
(***************************************************************************)
FreeAlign == 8

\* a faulty variant of __sr_alloc that hands a null pointer on as an offset
sr_alloc_unchecked(m, len, align) ==
    IF ~LayoutOk(len, align)
    THEN [m |-> m, ret |-> -1]
    ELSE Bind(HeapAlloc(m, len, align), LAMBDA r :
         [m |-> r.m, ret |-> AsI32(r.ptr)])

sr_alloc(m, len, align) ==
    IF ~LayoutOk(len, align)
    THEN [m |-> m, ret |-> -1]
    ELSE Bind(HeapAlloc(m, len, align), LAMBDA r :
         IF r.ptr = 0
         THEN [m |-> r.m, ret |-> -1]
         ELSE [m |-> r.m, ret |-> AsI32(r.ptr)])

sr_free(m, ptr, len) ==
    IF ~LayoutOk(len, FreeAlign)
    THEN [m |-> m, ret |-> -1]
    ELSE [m |-> HeapDealloc(m, ptr, len, FreeAlign), ret |-> 0]

(***************************************************************************)
(* Results of fallible steps: st is "ok", "err" (an anyhow error carried   *)
(* by `?`) or "panic" (unwrap/expect/slice index: a trap of the guest or a *)
(* panic of the host); e describes the error, x is the value produced.     *)
(***************************************************************************)
Ok(m, x) == [m |-> m, st |-> "ok", e |-> <<>>, x |-> x]
Err(m, e) == [m |-> m, st |-> "err", e |-> e, x |-> <<>>]
Panic(m, e) == [m |-> m, st |-> "panic", e |-> e, x |-> <<>>]
Fail(r) == [m |-> r.m, st |-> r.st, e |-> r.e, x |-> <<>>]

\* let r = step?; the `?` returns the failure of the step, else the rest of
\* the function runs on the result r of the step
Try(r, K(_)) == IF r.st # "ok" THEN Fail(r) ELSE K(r)

\* anyhow::bail!(text) / anyhow!(text): an error whose Display is the text
Msg(text) == <<"msg", text>>

\* the texts of the program, as character codes (one code per word)
TxtAllocFailed == <<77, 97>>
TxtDeallocFailed == <<77, 100>>
TxtNegativePtr == <<70, 112>>
TxtInvalidDatetime == <<84, 100>>
TxtExpected == <<69, 120>>
TxtFound == <<70, 111>>

(***************************************************************************)
(* The memory controllers.                                                 *)
(*   "guest": surrealism::Controller (the guest's own address space)       *)
(*   "host":  HostController (inside a host import)                        *)
(*   "outer": surrealism_runtime::Controller (the host around an export)   *)
(***************************************************************************)
Controllers == {"guest", "host", "outer"}

CtlAlloc(ctl, m, len, align) ==
    Bind(sr_alloc(m, len, align), LAMBDA r :
    IF ctl \in {"guest", "host"} /\ r.ret = -1
    THEN Err(r.m, Msg(TxtAllocFailed))
    ELSE Ok(r.m, AsU32(r.ret)))

CtlFree(ctl, m, ptr, len) ==
    Bind(sr_free(m, ptr, len), LAMBDA r :
    IF ctl \in {"guest", "host"} /\ r.ret = -1
    THEN Err(r.m, Msg(TxtDeallocFailed))
    ELSE Ok(r.m, <<>>))

\* mut_mem: the host controllers index the memory slice (panic when the
\* range leaves the memory), the guest builds the slice from the raw pointer
MutMemOk(ctl, ptr, len) == ctl = "guest" \/ ptr + len <= MemLen

\* the items stored at ptr (nothing when ptr is not the start of a block)
ItemsAt(m, ptr) == IF ptr \in SlotAddrs THEN m.cell[SlotOf(ptr)].data ELSE <<>>

MemRead(ctl, m, ptr, len) ==
    IF ~MutMemOk(ctl, ptr, len)
    THEN Panic(m, Msg(<<>>))
    ELSE Ok(Logged(m, [op |-> "read", ptr |-> ptr, len |-> len, live |-> IsLive(m, ptr)]),
            ItemsAt(m, ptr))

MemWrite(ctl, m, ptr, len, items) ==
    IF ~MutMemOk(ctl, ptr, len)
    THEN Panic(m, Msg(<<>>))
    ELSE LET m1 == IF ptr \in SlotAddrs
                   THEN [m EXCEPT !.cell[SlotOf(ptr)].data = items]
                   ELSE m
         IN Ok(Logged(m1, [op |-> "write", ptr |-> ptr, len |-> len, live |-> IsLive(m, ptr)]),
               <<>>)

(***************************************************************************)
(* Transfer (convert.rs): one plain value of type ty behind a pointer.     *)
(***************************************************************************)
Transfer(ctl, m, ty, item) ==
    Try(CtlAlloc(ctl, m, SizeOf(ty), AlignOf(ty)), LAMBDA a :
    Try(MemWrite(ctl, a.m, a.x, SizeOf(ty), <<item>>), LAMBDA w :
    Ok(w.m, a.x)))

\* the bytes of a block read as a value of type ty: #[repr(C)] enums keep
\* their u32 discriminant at offset 0, so an enum written as another enum
\* type is read with the same tag and a payload that is not that variant's
Stray == [stray |-> TRUE]
ReadAs(ty, item) ==
    IF item.ty = ty THEN item
    ELSE IF "tag" \in DOMAIN item THEN [ty |-> ty, tag |-> item.tag, stray |-> TRUE]
    ELSE [ty |-> ty, stray |-> TRUE]

\* a faulty variant of Receive that reads the block and leaves it allocated
ReceiveNoFree(ctl, m, ty, ptr) ==
    Try(MemRead(ctl, m, ptr, SizeOf(ty)), LAMBDA rd :
    Ok(rd.m, IF Len(rd.x) > 0 THEN ReadAs(ty, rd.x[1]) ELSE [ty |-> ty, stray |-> TRUE]))

Receive(ctl, m, ty, ptr) ==
    Try(MemRead(ctl, m, ptr, SizeOf(ty)), LAMBDA rd :
    Try(CtlFree(ctl, rd.m, ptr, SizeOf(ty)), LAMBDA f :
    Ok(f.m, IF Len(rd.x) > 0 THEN ReadAs(ty, rd.x[1]) ELSE [ty |-> ty, stray |-> TRUE])))

(***************************************************************************)
(* TransferredArray<T> (array.rs): {ptr, len} of a block of len items.     *)
(***************************************************************************)
TArr(ptr, len) == [ty |-> "TransferredArray", ptr |-> ptr, len |-> len]

VecInto(ctl, m, ty, items) ==
    Try(CtlAlloc(ctl, m, WrapU32(Len(items) * SizeOf(ty)), AlignOf(ty)), LAMBDA a :
    Try(MemWrite(ctl, a.m, a.x, WrapU32(Len(items) * SizeOf(ty)), items), LAMBDA w :
    Ok(w.m, TArr(a.x, WrapU32(Len(items))))))

\* slice::from_raw_parts(memory.as_ptr() as *const T, len).to_vec(): len items
\* of type ty from the start of the slice; an item past the items stored
\* there is whatever the memory holds (a stray item)
TypedSlice(ty, items, len) ==
    IF len <= Len(items) THEN SubSeq(items, 1, len)
    ELSE items \o [i \in 1..(len - Len(items)) |-> [ty |-> ty, stray |-> TRUE]]

\* a faulty variant of from_transferrable that frees the block before it
\* copies the items out of it
VecFromFreeFirst(ctl, m, ty, ta) ==
    Try(CtlFree(ctl, m, ta.ptr, WrapU32(ta.len * SizeOf(ty))), LAMBDA f :
    Try(MemRead(ctl, f.m, ta.ptr, WrapU32(ta.len * SizeOf(ty))), LAMBDA rd :
    Ok(rd.m, TypedSlice(ty, rd.x, ta.len))))

VecFrom(ctl, m, ty, ta) ==
    Try(MemRead(ctl, m, ta.ptr, WrapU32(ta.len * SizeOf(ty))), LAMBDA rd :
    Try(CtlFree(ctl, rd.m, ta.ptr, WrapU32(ta.len * SizeOf(ty))), LAMBDA f :
    Ok(f.m, TypedSlice(ty, rd.x, ta.len))))

(***************************************************************************)
(* The value algebra (surrealdb::sql::Value, the variants the engine       *)
(* transports).  Strings are their UTF-8 bytes; an Object is a map from    *)
(* key to value (BTreeMap<String, Value>).                                 *)
(***************************************************************************)
VNone == [t |-> "None"]
VNull == [t |-> "Null"]
VBool(b) == [t |-> "Bool", b |-> b]
NInt(i) == [k |-> "Int", i |-> i]
NFloat(f) == [k |-> "Float", f |-> f]
VNumber(n) == [t |-> "Number", n |-> n]
VInt(i) == VNumber(NInt(i))
VFloat(f) == VNumber(NFloat(f))
VStrand(s) == [t |-> "Strand", s |-> s]
VDuration(d) == [t |-> "Duration", d |-> d]
VDatetime(dt) == [t |-> "Datetime", dt |-> dt]
VUuid(u) == [t |-> "Uuid", u |-> u]
VArray(a) == [t |-> "Array", a |-> a]
VObject(o) == [t |-> "Object", o |-> o]
VBytes(by) == [t |-> "Bytes", by |-> by]
IdNumber(i) == [k |-> "Number", i |-> i]
IdString(s) == [k |-> "String", s |-> s]
IdArray(a) == [k |-> "Array", a |-> a]
IdObject(o) == [k |-> "Object", o |-> o]
VThing(tb, id) == [t |-> "Thing", tb |-> tb, id |-> id]

\* String::from_utf8 accepts exactly the well-formed sequences (one-byte
\* and two-byte forms suffice for the strings of the model)
RECURSIVE IsUtf8(_)
IsUtf8(bytes) ==
    IF bytes = <<>> THEN TRUE
    ELSE IF bytes[1] < 128 THEN IsUtf8(Tail(bytes))
    ELSE /\ bytes[1] \in 194..223
         /\ Len(bytes) >= 2
         /\ bytes[2] \in 128..191
         /\ IsUtf8(Tail(Tail(bytes)))

\* the order of String (byte-wise lexicographic), the key order of BTreeMap
RECURSIVE StrLeq(_, _)
StrLeq(a, b) ==
    \/ a = <<>>
    \/ /\ b # <<>>
       /\ \/ a[1] < b[1]
          \/ a[1] = b[1] /\ StrLeq(Tail(a), Tail(b))

\* BTreeMap::into_iter: the entries in ascending key order
RECURSIVE SortedKeys(_)
SortedKeys(S) ==
    IF S = {} THEN <<>>
    ELSE LET k == CHOOSE x \in S : \A y \in S : StrLeq(x, y)
         IN <<k>> \o SortedKeys(S \ {k})

MapIntoIter(o) == LET ks == SortedKeys(DOMAIN o)
                  IN [i \in 1..Len(ks) |-> <<ks[i], o[ks[i]]>>]

\* BTreeMap::from_iter: later entries replace earlier ones with the same key
RECURSIVE MapFromIter(_)
MapFromIter(entries) ==
    IF entries = <<>> THEN <<>>
    ELSE LET n == Len(entries)
             init == MapFromIter(SubSeq(entries, 1, n - 1))
             k == entries[n][1]
         IN [x \in (DOMAIN init) \cup {k} |-> IF x = k THEN entries[n][2] ELSE init[x]]

(***************************************************************************)
(* Wire forms.  Value (value.rs), Number (number.rs), Datetime             *)
(* (datetime.rs), Thing and Id (thing.rs): a u32 tag in declaration order  *)
(* and the payload of the variant.                                         *)
(***************************************************************************)
SR_VALUE_NONE == 0
SR_VALUE_NULL == 1
SR_VALUE_BOOL == 2
SR_VALUE_NUMBER == 3
SR_VALUE_STRAND == 4
SR_VALUE_DURATION == 5
SR_VALUE_DATETIME == 6
SR_VALUE_UUID == 7
SR_VALUE_ARRAY == 8
SR_VALUE_OBJECT == 9
SR_VALUE_BYTES == 10
SR_VALUE_THING == 11

WValue(tag) == [ty |-> "Value", tag |-> tag]
WBool(b) == [ty |-> "Value", tag |-> SR_VALUE_BOOL, b |-> b]
WNumber(n) == [ty |-> "Value", tag |-> SR_VALUE_NUMBER, n |-> n]
WStrand(ta) == [ty |-> "Value", tag |-> SR_VALUE_STRAND, strand |-> ta]
WDuration(d) == [ty |-> "Value", tag |-> SR_VALUE_DURATION, d |-> d]
WDatetime(dt) == [ty |-> "Value", tag |-> SR_VALUE_DATETIME, dt |-> dt]
WUuid(u) == [ty |-> "Value", tag |-> SR_VALUE_UUID, u |-> u]
WArray(ta) == [ty |-> "Value", tag |-> SR_VALUE_ARRAY, arr |-> ta]
WObject(ta) == [ty |-> "Value", tag |-> SR_VALUE_OBJECT, obj |-> ta]
WBytes(ta) == [ty |-> "Value", tag |-> SR_VALUE_BYTES, bytes |-> ta]
WThing(th) == [ty |-> "Value", tag |-> SR_VALUE_THING, thing |-> th]

SR_NUMBER_INT == 0
SR_NUMBER_FLOAT == 1

\* impl From<sql::Number> for Number / From<Number> for sql::Number
NumberInto(n) ==
    IF n.k = "Int" THEN [tag |-> SR_NUMBER_INT, i |-> n.i]
    ELSE [tag |-> SR_NUMBER_FLOAT, f |-> n.f]

NumberFrom(w) ==
    IF w.tag = SR_NUMBER_INT THEN NInt(w.i) ELSE NFloat(w.f)

\* Duration and Uuid: plain copies of (secs, nanos) and of the 16 bytes
DurationInto(d) == [secs |-> d.secs, nanos |-> d.nanos]
DurationFrom(w) == [secs |-> w.secs, nanos |-> w.nanos]
UuidInto(u) == [bytes |-> u]
UuidFrom(w) == w.bytes

\* chrono::DateTime::<Utc>::from_timestamp: None outside the representable
\* range of seconds and for nanos of two seconds or more; nanos of a second
\* or more denote a leap second and are accepted only in second 59
NanosPerSec == 10 ^ 9
TimestampMax == 2 ^ 12
TimestampValid(secs, nanos) ==
    /\ secs >= -TimestampMax
    /\ secs <= TimestampMax
    /\ nanos >= 0
    /\ \/ nanos < NanosPerSec
       \/ nanos < 2 * NanosPerSec /\ secs % 60 = 59

\* a faulty variant of DatetimeInto that keeps whole seconds only
DatetimeIntoSecsOnly(dt) == [secs |-> dt.secs, nanos |-> 0]

\* impl From<sql::Datetime> for Datetime: timestamp(), timestamp_subsec_nanos()
DatetimeInto(dt) == [secs |-> dt.secs, nanos |-> dt.nanos]

\* impl TryFrom<Datetime> for sql::Datetime
DatetimeTryFrom(m, w) ==
    IF TimestampValid(w.secs, w.nanos)
    THEN Ok(m, [secs |-> w.secs, nanos |-> w.nanos])
    ELSE Err(m, <<"InvalidDatetime">>)

SR_ID_NUMBER == 0
SR_ID_STRING == 1
SR_ID_ARRAY == 2
SR_ID_OBJECT == 3

(***************************************************************************)
(* Encoding (into_transferrable): sql value -> wire value, allocating the  *)
(* heap-borne payloads through the controller.  `?` returns at the first   *)
(* failing step.                                                           *)
(***************************************************************************)
\* impl IntoTransferrable<Strand> for String (string.rs)
StringInto(ctl, m, str) == VecInto(ctl, m, "u8", str)

\* impl FromTransferrable<Strand> for String (string.rs)
StringFrom(ctl, m, ta) ==
    Try(VecFrom(ctl, m, "u8", ta), LAMBDA r :
    IF IsUtf8(r.x) THEN Ok(r.m, r.x) ELSE Panic(r.m, Msg(<<>>)))

\* impl for sql::Bytes (bytes.rs)
BytesInto(ctl, m, by) == VecInto(ctl, m, "u8", by)
BytesFrom(ctl, m, ta) == VecFrom(ctl, m, "u8", ta)

RECURSIVE ValueInto(_, _, _), ValuesInto(_, _, _), ArrayInto(_, _, _),
          EntriesInto(_, _, _), ObjectInto(_, _, _), ThingInto(_, _, _)

\* impl IntoTransferrable<Value> for sql::Value (value.rs)
ValueInto(ctl, m, v) ==
    CASE v.t = "None" -> Ok(m, WValue(SR_VALUE_NONE))
      [] v.t = "Null" -> Ok(m, WValue(SR_VALUE_NULL))
      [] v.t = "Bool" -> Ok(m, WBool(v.b))
      [] v.t = "Number" -> Ok(m, WNumber(NumberInto(v.n)))
      [] v.t = "Strand" ->
            Try(StringInto(ctl, m, v.s), LAMBDA r : Ok(r.m, WStrand(r.x)))
      [] v.t = "Duration" -> Ok(m, WDuration(DurationInto(v.d)))
      [] v.t = "Datetime" -> Ok(m, WDatetime(DatetimeInto(v.dt)))
      [] v.t = "Uuid" -> Ok(m, WUuid(UuidInto(v.u)))
      [] v.t = "Array" ->
            Try(ArrayInto(ctl, m, v.a), LAMBDA r : Ok(r.m, WArray(r.x)))
      [] v.t = "Object" ->
            Try(ObjectInto(ctl, m, v.o), LAMBDA r : Ok(r.m, WObject(r.x)))
      [] v.t = "Bytes" ->
            Try(BytesInto(ctl, m, v.by), LAMBDA r : Ok(r.m, WBytes(r.x)))
      [] v.t = "Thing" ->
            Try(ThingInto(ctl, m, v), LAMBDA r : Ok(r.m, WThing(r.x)))
      [] OTHER -> Panic(m, Msg(<<>>))

\* .map(|v| v.into_transferrable(controller)).collect::<Result<Vec<Value>>>()
ValuesInto(ctl, m, vs) ==
    IF vs = <<>> THEN Ok(m, <<>>)
    ELSE Try(ValueInto(ctl, m, Head(vs)), LAMBDA h :
         Try(ValuesInto(ctl, h.m, Tail(vs)), LAMBDA t :
         Ok(t.m, <<h.x>> \o t.x)))

\* impl Transferrable<Array> for sql::Array (array.rs)
ArrayInto(ctl, m, a) ==
    Try(ValuesInto(ctl, m, a), LAMBDA r : VecInto(ctl, r.m, "Value", r.x))

\* impl Transferrable<KeyValuePair> for (String, X) (object.rs), collected
EntriesInto(ctl, m, es) ==
    IF es = <<>> THEN Ok(m, <<>>)
    ELSE Try(StringInto(ctl, m, Head(es)[1]), LAMBDA k :
         Try(ValueInto(ctl, k.m, Head(es)[2]), LAMBDA v :
         Try(EntriesInto(ctl, v.m, Tail(es)), LAMBDA t :
         Ok(t.m, <<[ty |-> "KeyValuePair", key |-> k.x,
                    value |-> v.x]>> \o t.x))))

\* impl Transferrable<Object> for sql::Object (object.rs)
ObjectInto(ctl, m, o) ==
    Try(EntriesInto(ctl, m, MapIntoIter(o)), LAMBDA r :
    VecInto(ctl, r.m, "KeyValuePair", r.x))

\* impl Transferrable<Thing> for sql::Thing (thing.rs)
ThingInto(ctl, m, v) ==
    Try(StringInto(ctl, m, v.tb), LAMBDA tb :
    Try(CASE v.id.k = "Number" -> Ok(tb.m, [tag |-> SR_ID_NUMBER, i |-> v.id.i])
          [] v.id.k = "String" ->
                Try(StringInto(ctl, tb.m, v.id.s), LAMBDA r :
                Ok(r.m, [tag |-> SR_ID_STRING, strand |-> r.x]))
          [] v.id.k = "Array" ->
                Try(ArrayInto(ctl, tb.m, v.id.a), LAMBDA r :
                Ok(r.m, [tag |-> SR_ID_ARRAY, arr |-> r.x]))
          [] v.id.k = "Object" ->
                Try(ObjectInto(ctl, tb.m, v.id.o), LAMBDA r :
                Ok(r.m, [tag |-> SR_ID_OBJECT, obj |-> r.x]))
          [] OTHER -> Panic(tb.m, Msg(<<>>)), LAMBDA id :
    Ok(id.m, [tb |-> tb.x, id |-> id.x])))

(***************************************************************************)
(* Decoding (from_transferrable): wire value -> sql value, freeing every   *)
(* block it reads.                                                         *)
(***************************************************************************)
RECURSIVE ValueFrom(_, _, _), ValuesFrom(_, _, _), ArrayFrom(_, _, _),
          EntriesFrom(_, _, _), ObjectFrom(_, _, _), ThingFrom(_, _, _)

\* impl FromTransferrable<Value> for sql::Value (value.rs)
ValueFrom(ctl, m, w) ==
    CASE w.tag = SR_VALUE_NONE -> Ok(m, VNone)
      [] w.tag = SR_VALUE_NULL -> Ok(m, VNull)
      [] w.tag = SR_VALUE_BOOL -> Ok(m, VBool(w.b))
      [] w.tag = SR_VALUE_NUMBER -> Ok(m, VNumber(NumberFrom(w.n)))
      [] w.tag = SR_VALUE_STRAND ->
            Try(StringFrom(ctl, m, w.strand), LAMBDA r : Ok(r.m, VStrand(r.x)))
      [] w.tag = SR_VALUE_DURATION -> Ok(m, VDuration(DurationFrom(w.d)))
      [] w.tag = SR_VALUE_DATETIME ->
            Try(DatetimeTryFrom(m, w.dt), LAMBDA r : Ok(r.m, VDatetime(r.x)))
      [] w.tag = SR_VALUE_UUID -> Ok(m, VUuid(UuidFrom(w.u)))
      [] w.tag = SR_VALUE_ARRAY ->
            Try(ArrayFrom(ctl, m, w.arr), LAMBDA r : Ok(r.m, VArray(r.x)))
      [] w.tag = SR_VALUE_OBJECT ->
            Try(ObjectFrom(ctl, m, w.obj), LAMBDA r : Ok(r.m, VObject(r.x)))
      [] w.tag = SR_VALUE_BYTES ->
            Try(BytesFrom(ctl, m, w.bytes), LAMBDA r : Ok(r.m, VBytes(r.x)))
      [] w.tag = SR_VALUE_THING ->
            Try(ThingFrom(ctl, m, w.thing), LAMBDA r : Ok(r.m, r.x))
      [] OTHER -> Panic(m, Msg(<<>>))

\* .map(|x| sql::Value::from_transferrable(x, controller)).collect::<Result<_>>()
ValuesFrom(ctl, m, ws) ==
    IF ws = <<>> THEN Ok(m, <<>>)
    ELSE Try(ValueFrom(ctl, m, Head(ws)), LAMBDA h :
         Try(ValuesFrom(ctl, h.m, Tail(ws)), LAMBDA t :
         Ok(t.m, <<h.x>> \o t.x)))

ArrayFrom(ctl, m, ta) ==
    Try(VecFrom(ctl, m, "Value", ta), LAMBDA r : ValuesFrom(ctl, r.m, r.x))

EntriesFrom(ctl, m, ws) ==
    IF ws = <<>> THEN Ok(m, <<>>)
    ELSE Try(StringFrom(ctl, m, Head(ws).key), LAMBDA k :
         Try(ValueFrom(ctl, k.m, Head(ws).value), LAMBDA v :
         Try(EntriesFrom(ctl, v.m, Tail(ws)), LAMBDA t :
         Ok(t.m, <<<<k.x, v.x>>>> \o t.x))))

ObjectFrom(ctl, m, ta) ==
    Try(VecFrom(ctl, m, "KeyValuePair", ta), LAMBDA r :
    Try(EntriesFrom(ctl, r.m, r.x), LAMBDA es :
    Ok(es.m, MapFromIter(es.x))))

ThingFrom(ctl, m, th) ==
    Try(StringFrom(ctl, m, th.tb), LAMBDA tb :
    Try(CASE th.id.tag = SR_ID_NUMBER -> Ok(tb.m, IdNumber(th.id.i))
          [] th.id.tag = SR_ID_STRING ->
                Try(StringFrom(ctl, tb.m, th.id.strand), LAMBDA r :
                Ok(r.m, IdString(r.x)))
          [] th.id.tag = SR_ID_ARRAY ->
                Try(ArrayFrom(ctl, tb.m, th.id.arr), LAMBDA r :
                Ok(r.m, IdArray(r.x)))
          [] th.id.tag = SR_ID_OBJECT ->
                Try(ObjectFrom(ctl, tb.m, th.id.obj), LAMBDA r :
                Ok(r.m, IdObject(r.x)))
          [] OTHER -> Panic(tb.m, Msg(<<>>)), LAMBDA id :
    Ok(id.m, VThing(tb.x, id.x))))

\* a value behind one pointer: into_transferrable, then Transfer::transfer
TransferValue(ctl, m, v) ==
    Try(ValueInto(ctl, m, v), LAMBDA w : Transfer(ctl, w.m, "Value", w.x))

\* Transfer::receive, then from_transferrable
ReceiveValue(ctl, m, ptr) ==
    Try(Receive(ctl, m, "Value", ptr), LAMBDA w : ValueFrom(ctl, w.m, w.x))

(***************************************************************************)
(* Kinds (kind.rs).  The wire Kind is a #[repr(C)] enum whose tag is the   *)
(* position of the variant in the declaration.                             *)
(***************************************************************************)
UnitKinds == {"Any", "Null", "Bool", "Bytes", "Datetime", "Decimal", "Duration",
              "Float", "Int", "Number", "Object", "Point", "String", "Uuid",
              "Regex", "Range"}

KindTags == <<"Any", "Null", "Bool", "Bytes", "Datetime", "Decimal", "Duration",
              "Float", "Int", "Number", "Object", "Point", "String", "Uuid",
              "Regex", "Record", "Geometry", "Option", "Either", "Set", "Array",
              "Function", "Range", "Literal">>
KindTag(name) == (CHOOSE i \in DOMAIN KindTags : KindTags[i] = name) - 1
KindName(tag) == KindTags[tag + 1]

LiteralTags == <<"String", "Number", "Duration", "Array", "Object",
                 "DiscriminatedObject", "Bool">>
LiteralTag(name) == (CHOOSE i \in DOMAIN LiteralTags : LiteralTags[i] = name) - 1
LiteralName(tag) == LiteralTags[tag + 1]

\* Option<T> and COption<T>
None == [some |-> FALSE]
Some(x) == [some |-> TRUE, v |-> x]
CNone == [tag |-> 0]
CSome(x) == [tag |-> 1, v |-> x]
COptionFrom(o) == IF o.some THEN CSome(o.v) ELSE CNone
\* a faulty variant of OptionFrom that forgets the payload
OptionFromAlwaysNone(c) == None
OptionFrom(c) == IF c.tag = 1 THEN Some(c.v) ELSE None

\* sql::Kind
KUnit(name) == [kd |-> name]
KRecord(tbs) == [kd |-> "Record", tbs |-> tbs]
KGeometry(gs) == [kd |-> "Geometry", gs |-> gs]
KOption(k) == [kd |-> "Option", inner |-> k]
KEither(ks) == [kd |-> "Either", ks |-> ks]
KSet(k, len) == [kd |-> "Set", inner |-> k, len |-> len]
KArray(k, len) == [kd |-> "Array", inner |-> k, len |-> len]
KFunction(args, returns) == [kd |-> "Function", args |-> args, returns |-> returns]
KLiteral(lit) == [kd |-> "Literal", lit |-> lit]
KUnsupported == [kd |-> "References"]

\* sql::Literal
LString(s) == [lk |-> "String", s |-> s]
LNumber(n) == [lk |-> "Number", n |-> n]
LDuration(d) == [lk |-> "Duration", d |-> d]
LBool(b) == [lk |-> "Bool", b |-> b]
LArray(ks) == [lk |-> "Array", ks |-> ks]
LObject(o) == [lk |-> "Object", o |-> o]
LDiscriminatedObject(key, variants) ==
    [lk |-> "DiscriminatedObject", key |-> key, variants |-> variants]

WKind(name) == [ty |-> "Kind", tag |-> KindTag(name)]
WLiteral(name) == [tag |-> LiteralTag(name)]

\* xs.into_iter().map(|x| F(x, controller)).collect::<Result<Vec<_>>>()
RECURSIVE Collect(_, _, _, _)
Collect(F(_, _, _), ctl, m, xs) ==
    IF xs = <<>> THEN Ok(m, <<>>)
    ELSE Try(F(ctl, m, Head(xs)), LAMBDA h :
         Try(Collect(F, ctl, h.m, Tail(xs)), LAMBDA t :
         Ok(t.m, <<h.x>> \o t.x)))

\* Vec<String> -> TransferredArray<Strand> and back
StrandsInto(ctl, m, strs) ==
    Try(Collect(StringInto, ctl, m, strs), LAMBDA r :
    VecInto(ctl, r.m, "Strand", r.x))

StrandsFrom(ctl, m, ta) ==
    Try(VecFrom(ctl, m, "Strand", ta), LAMBDA r :
    Collect(StringFrom, ctl, r.m, r.x))

RECURSIVE KindInto(_, _, _), KindsInto(_, _, _), KindBoxInto(_, _, _),
          LiteralInto(_, _, _), KindEntryInto(_, _, _), KindMapInto(_, _, _)

\* x.into_transferrable(controller)?.transfer(controller)?
KindBoxInto(ctl, m, k) ==
    Try(KindInto(ctl, m, k), LAMBDA w : Transfer(ctl, w.m, "Kind", w.x))

\* Vec<sql::Kind> -> TransferredArray<Kind>
KindsInto(ctl, m, ks) ==
    Try(Collect(KindInto, ctl, m, ks), LAMBDA r : VecInto(ctl, r.m, "Kind", r.x))

\* impl Transferrable<KeyValuePair<sql::Kind, Kind>> for (String, sql::Kind)
KindEntryInto(ctl, m, e) ==
    Try(StringInto(ctl, m, e[1]), LAMBDA k :
    Try(KindInto(ctl, k.m, e[2]), LAMBDA v :
    Ok(v.m, [ty |-> "KeyValuePair<Kind>", key |-> k.x, value |-> v.x])))

\* impl IntoTransferrable<TransferredArray> for BTreeMap<String, sql::Kind>
KindMapInto(ctl, m, o) ==
    Try(Collect(KindEntryInto, ctl, m, MapIntoIter(o)), LAMBDA r :
    VecInto(ctl, r.m, "KeyValuePair<Kind>", r.x))

\* impl IntoTransferrable<Literal> for sql::Literal
LiteralInto(ctl, m, l) ==
    CASE l.lk = "String" ->
            Try(StringInto(ctl, m, l.s), LAMBDA r :
            Ok(r.m, [tag |-> LiteralTag("String"), strand |-> r.x]))
      [] l.lk = "Number" -> Ok(m, [tag |-> LiteralTag("Number"), n |-> NumberInto(l.n)])
      [] l.lk = "Duration" -> Ok(m, [tag |-> LiteralTag("Duration"), d |-> DurationInto(l.d)])
      [] l.lk = "Bool" -> Ok(m, [tag |-> LiteralTag("Bool"), b |-> l.b])
      [] l.lk = "Array" ->
            Try(KindsInto(ctl, m, l.ks), LAMBDA r :
            Ok(r.m, [tag |-> LiteralTag("Array"), arr |-> r.x]))
      [] l.lk = "Object" ->
            Try(KindMapInto(ctl, m, l.o), LAMBDA r :
            Ok(r.m, [tag |-> LiteralTag("Object"), obj |-> r.x]))
      [] l.lk = "DiscriminatedObject" ->
            Try(StringInto(ctl, m, l.key), LAMBDA k :
            Try(Collect(KindMapInto, ctl, k.m, l.variants), LAMBDA vs :
            Try(VecInto(ctl, vs.m, "TransferredArray", vs.x), LAMBDA r :
            Ok(r.m, [tag |-> LiteralTag("DiscriminatedObject"),
                     key |-> k.x, variants |-> r.x]))))
      [] OTHER -> Err(m, <<"UnsupportedKind">>)

\* impl IntoTransferrable<Kind> for sql::Kind
KindInto(ctl, m, k) ==
    CASE k.kd \in UnitKinds -> Ok(m, WKind(k.kd))
      [] k.kd = "Record" ->
            Try(StrandsInto(ctl, m, k.tbs), LAMBDA r :
            Ok(r.m, [ty |-> "Kind", tag |-> KindTag("Record"), tbs |-> r.x]))
      [] k.kd = "Geometry" ->
            Try(StrandsInto(ctl, m, k.gs), LAMBDA r :
            Ok(r.m, [ty |-> "Kind", tag |-> KindTag("Geometry"), gs |-> r.x]))
      [] k.kd = "Option" ->
            Try(KindBoxInto(ctl, m, k.inner), LAMBDA r :
            Ok(r.m, [ty |-> "Kind", tag |-> KindTag("Option"), inner |-> r.x]))
      [] k.kd = "Either" ->
            Try(KindsInto(ctl, m, k.ks), LAMBDA r :
            Ok(r.m, [ty |-> "Kind", tag |-> KindTag("Either"), ks |-> r.x]))
      [] k.kd \in {"Set", "Array"} ->
            Try(KindBoxInto(ctl, m, k.inner), LAMBDA r :
            Ok(r.m, [ty |-> "Kind", tag |-> KindTag(k.kd), inner |-> r.x,
                     len |-> COptionFrom(k.len)]))
      [] k.kd = "Function" ->
            Try(IF k.args.some THEN KindsInto(ctl, m, k.args.v)
                ELSE Ok(m, <<>>), LAMBDA a :
            Try(IF k.returns.some THEN KindBoxInto(ctl, a.m, k.returns.v)
                ELSE Ok(a.m, <<>>), LAMBDA r :
            Ok(r.m, [ty |-> "Kind", tag |-> KindTag("Function"),
                     args |-> IF k.args.some THEN CSome(a.x) ELSE CNone,
                     returns |-> IF k.returns.some THEN CSome(r.x) ELSE CNone])))
      [] k.kd = "Literal" ->
            Try(LiteralInto(ctl, m, k.lit), LAMBDA r :
            Ok(r.m, [ty |-> "Kind", tag |-> KindTag("Literal"), lit |-> r.x]))
      [] OTHER -> Err(m, <<"UnsupportedKind">>)

RECURSIVE KindFrom(_, _, _), KindsFrom(_, _, _), KindBoxFrom(_, _, _),
          LiteralFrom(_, _, _), KindEntryFrom(_, _, _), KindMapFrom(_, _, _)

\* sql::Kind::from_transferrable(Kind::receive(x, controller)?, controller)?
KindBoxFrom(ctl, m, ptr) ==
    Try(Receive(ctl, m, "Kind", ptr), LAMBDA w : KindFrom(ctl, w.m, w.x))

\* TransferredArray<Kind> -> Vec<sql::Kind>
KindsFrom(ctl, m, ta) ==
    Try(VecFrom(ctl, m, "Kind", ta), LAMBDA r : Collect(KindFrom, ctl, r.m, r.x))

KindEntryFrom(ctl, m, w) ==
    Try(StringFrom(ctl, m, w.key), LAMBDA k :
    Try(KindFrom(ctl, k.m, w.value), LAMBDA v :
    Ok(v.m, <<k.x, v.x>>)))

\* impl FromTransferrable<TransferredArray> for BTreeMap<String, sql::Kind>
KindMapFrom(ctl, m, ta) ==
    Try(VecFrom(ctl, m, "KeyValuePair<Kind>", ta), LAMBDA r :
    Try(Collect(KindEntryFrom, ctl, r.m, r.x), LAMBDA es :
    Ok(es.m, MapFromIter(es.x))))

\* impl FromTransferrable<Literal> for sql::Literal
LiteralFrom(ctl, m, w) ==
    LET name == LiteralName(w.tag)
    IN CASE name = "String" ->
               Try(StringFrom(ctl, m, w.strand), LAMBDA r : Ok(r.m, LString(r.x)))
         [] name = "Number" -> Ok(m, LNumber(NumberFrom(w.n)))
         [] name = "Duration" -> Ok(m, LDuration(DurationFrom(w.d)))
         [] name = "Bool" -> Ok(m, LBool(w.b))
         [] name = "Array" ->
               Try(KindsFrom(ctl, m, w.arr), LAMBDA r : Ok(r.m, LArray(r.x)))
         [] name = "Object" ->
               Try(KindMapFrom(ctl, m, w.obj), LAMBDA r : Ok(r.m, LObject(r.x)))
         [] name = "DiscriminatedObject" ->
               Try(StringFrom(ctl, m, w.key), LAMBDA k :
               Try(VecFrom(ctl, k.m, "TransferredArray", w.variants), LAMBDA tas :
               Try(Collect(KindMapFrom, ctl, tas.m, tas.x), LAMBDA vs :
               Ok(vs.m, LDiscriminatedObject(k.x, vs.x)))))

\* impl FromTransferrable<Kind> for sql::Kind
KindFrom(ctl, m, w) ==
    LET name == KindName(w.tag)
    IN CASE name \in UnitKinds -> Ok(m, KUnit(name))
         [] name = "Record" ->
               Try(StrandsFrom(ctl, m, w.tbs), LAMBDA r : Ok(r.m, KRecord(r.x)))
         [] name = "Geometry" ->
               Try(StrandsFrom(ctl, m, w.gs), LAMBDA r : Ok(r.m, KGeometry(r.x)))
         [] name = "Option" ->
               Try(KindBoxFrom(ctl, m, w.inner), LAMBDA r : Ok(r.m, KOption(r.x)))
         [] name = "Either" ->
               Try(KindsFrom(ctl, m, w.ks), LAMBDA r : Ok(r.m, KEither(r.x)))
         [] name = "Set" ->
               Try(KindBoxFrom(ctl, m, w.inner), LAMBDA r :
               Ok(r.m, KSet(r.x, OptionFrom(w.len))))
         [] name = "Array" ->
               Try(KindBoxFrom(ctl, m, w.inner), LAMBDA r :
               Ok(r.m, KArray(r.x, OptionFrom(w.len))))
         [] name = "Function" ->
               Try(IF w.args.tag = 1 THEN KindsFrom(ctl, m, w.args.v)
                   ELSE Ok(m, <<>>), LAMBDA a :
               Try(IF w.returns.tag = 1 THEN KindBoxFrom(ctl, a.m, w.returns.v)
                   ELSE Ok(a.m, <<>>), LAMBDA r :
               Ok(r.m, KFunction(
                       IF w.args.tag = 1 THEN Some(a.x) ELSE None,
                       IF w.returns.tag = 1 THEN Some(r.x) ELSE None))))
         [] name = "Literal" ->
               Try(LiteralFrom(ctl, m, w.lit), LAMBDA r : Ok(r.m, KLiteral(r.x)))

\* a kind behind one pointer
TransferKind(ctl, m, k) == KindBoxInto(ctl, m, k)
ReceiveKind(ctl, m, ptr) == KindBoxFrom(ctl, m, ptr)

(***************************************************************************)
(* Typed arguments (convert.rs, args.rs).  A parameter type is one of the  *)
(* names below; a signature is the sequence of the parameter types.        *)
(***************************************************************************)
ArgTypes == {"i64", "f64", "bool", "String", "sql::Value"}

\* a native value of each primitive parameter type
I64(x) == [i64 |-> x]
F64(x) == [f64 |-> x]
Bool(x) == [bool |-> x]
Str(x) == [str |-> x]

\* Value::kindof (value.rs)
kindof(w) ==
    CASE w.tag = SR_VALUE_NONE -> KUnit("Any")
      [] w.tag = SR_VALUE_NULL -> KUnit("Null")
      [] w.tag = SR_VALUE_BOOL -> KUnit("Bool")
      [] w.tag = SR_VALUE_NUMBER -> KUnit("Number")
      [] w.tag = SR_VALUE_STRAND -> KUnit("String")
      [] w.tag = SR_VALUE_DURATION -> KUnit("Duration")
      [] w.tag = SR_VALUE_DATETIME -> KUnit("Datetime")
      [] w.tag = SR_VALUE_UUID -> KUnit("Uuid")
      [] w.tag = SR_VALUE_ARRAY -> KArray(KUnit("Any"), None)
      [] w.tag = SR_VALUE_OBJECT -> KUnit("Object")
      [] w.tag = SR_VALUE_BYTES -> KUnit("Bytes")
      [] w.tag = SR_VALUE_THING -> KRecord(<<>>)

UnexpectedType(found, expected) == <<"UnexpectedType", found, expected>>
InvalidArgs(expected, got) == <<"InvalidArgs", expected, got>>

\* the types of the parameters of annotated functions, by name; a tuple type
\* is named with the names of its elements
TupleTypes == {"(String, i64)", "(bool,)", "((bool,), i64)"}
TupleElems(ty) ==
    CASE ty = "(String, i64)" -> <<"String", "i64">>
      [] ty = "(bool,)" -> <<"bool">>
      [] ty = "((bool,), i64)" -> <<"(bool,)", "i64">>

\* impl_kindof!, impl KindOf for Option<T> / Result<T, E> / () (kindof.rs)
\* and for tuples (tuple.rs); Result<T, E> is written ResultOf(T)
RECURSIVE KindOfType(_)
KindOfType(ty) ==
    CASE ty = "sql::Value" -> KUnit("Any")
      [] ty = "bool" -> KUnit("Bool")
      [] ty = "sql::Bytes" -> KUnit("Bytes")
      [] ty = "sql::Datetime" -> KUnit("Datetime")
      [] ty = "sql::Duration" -> KUnit("Duration")
      [] ty = "f64" -> KUnit("Float")
      [] ty = "i64" -> KUnit("Int")
      [] ty = "sql::Number" -> KUnit("Number")
      [] ty = "sql::Object" -> KUnit("Object")
      [] ty = "String" -> KUnit("String")
      [] ty = "sql::Regex" -> KUnit("Regex")
      [] ty = "sql::Thing" -> KRecord(<<>>)
      [] ty = "sql::Geometry" -> KGeometry(<<>>)
      [] ty = "sql::Range" -> KUnit("Range")
      [] ty = "sql::Array" -> KArray(KUnit("Any"), None)
      [] ty = "Option<i64>" -> KOption(KindOfType("i64"))
      [] ty = "()" -> KUnit("Any")
      [] ty \in TupleTypes ->
            KLiteral(LArray([i \in DOMAIN TupleElems(ty) |->
                                 KindOfType(TupleElems(ty)[i])]))

RECURSIVE ArgFrom(_, _, _, _), ArgInto(_, _, _, _),
          ArgsFrom(_, _, _, _), ArgsInto(_, _, _, _)

\* a faulty variant of TupleFrom that takes an array with elements to spare
TupleFromAtLeast(ctl, m, ty, w) ==
    IF w.tag = SR_VALUE_ARRAY
    THEN Try(VecFrom(ctl, m, "Value", w.arr), LAMBDA arr :
         IF Len(arr.x) < Len(TupleElems(ty))
         THEN Err(arr.m, UnexpectedType(KArray(KUnit("Any"), Some(Len(arr.x))),
                                        KindOfType(ty)))
         ELSE ArgsFrom(ctl, arr.m, TupleElems(ty), arr.x))
    ELSE Err(m, UnexpectedType(kindof(w), KArray(KUnit("Any"), None)))

\* impl Transferrable for tuples (tuple.rs): from_transferrable; the tuple
\* is the sequence of its elements
TupleFrom(ctl, m, ty, w) ==
    IF w.tag = SR_VALUE_ARRAY
    THEN Try(VecFrom(ctl, m, "Value", w.arr), LAMBDA arr :
         IF Len(arr.x) # Len(TupleElems(ty))
         THEN Err(arr.m, UnexpectedType(KArray(KUnit("Any"), Some(Len(arr.x))),
                                        KindOfType(ty)))
         ELSE ArgsFrom(ctl, arr.m, TupleElems(ty), arr.x))
    ELSE Err(m, UnexpectedType(kindof(w), KArray(KUnit("Any"), None)))

\* impl Transferrable for tuples (tuple.rs): into_transferrable
TupleInto(ctl, m, ty, x) ==
    Try(ArgsInto(ctl, m, TupleElems(ty), x), LAMBDA vals :
    Try(VecInto(ctl, vals.m, "Value", vals.x), LAMBDA ta :
    Ok(ta.m, WArray(ta.x))))

\* impl Transferrable for bool / i64 / f64 / String / sql::Value:
\* from_transferrable
ArgFrom(ctl, m, ty, w) ==
    CASE ty = "bool" ->
            IF w.tag = SR_VALUE_BOOL THEN Ok(m, Bool(w.b))
            ELSE Err(m, UnexpectedType(kindof(w), KUnit("Bool")))
      [] ty = "i64" ->
            IF w.tag = SR_VALUE_NUMBER /\ w.n.tag = SR_NUMBER_INT THEN Ok(m, I64(w.n.i))
            ELSE Err(m, UnexpectedType(kindof(w), KUnit("Int")))
      [] ty = "f64" ->
            IF w.tag = SR_VALUE_NUMBER /\ w.n.tag = SR_NUMBER_FLOAT THEN Ok(m, F64(w.n.f))
            ELSE Err(m, UnexpectedType(kindof(w), KUnit("Float")))
      [] ty = "String" ->
            IF w.tag = SR_VALUE_STRAND
            THEN Try(StringFrom(ctl, m, w.strand), LAMBDA r : Ok(r.m, Str(r.x)))
            ELSE Err(m, UnexpectedType(kindof(w), KUnit("String")))
      [] ty = "sql::Value" -> ValueFrom(ctl, m, w)
      [] ty \in TupleTypes -> TupleFrom(ctl, m, ty, w)

\* into_transferrable of the same types
ArgInto(ctl, m, ty, x) ==
    CASE ty = "bool" -> Ok(m, WBool(x.bool))
      [] ty = "i64" -> Ok(m, WNumber([tag |-> SR_NUMBER_INT, i |-> x.i64]))
      [] ty = "f64" -> Ok(m, WNumber([tag |-> SR_NUMBER_FLOAT, f |-> x.f64]))
      [] ty = "String" ->
            Try(StringInto(ctl, m, x.str), LAMBDA r : Ok(r.m, WStrand(r.x)))
      [] ty = "sql::Value" -> ValueInto(ctl, m, x)
      [] ty \in TupleTypes -> TupleInto(ctl, m, ty, x)

\* let $name = $name::from_transferrable(arr.remove(0), controller)?; ...
ArgsFrom(ctl, m, sig, ws) ==
    IF sig = <<>> THEN Ok(m, <<>>)
    ELSE Try(ArgFrom(ctl, m, Head(sig), Head(ws)), LAMBDA h :
         Try(ArgsFrom(ctl, h.m, Tail(sig), Tail(ws)), LAMBDA t :
         Ok(t.m, <<h.x>> \o t.x)))

\* vec![$($name.into_transferrable(controller)?),+]
ArgsInto(ctl, m, sig, xs) ==
    IF sig = <<>> THEN Ok(m, <<>>)
    ELSE Try(ArgInto(ctl, m, Head(sig), Head(xs)), LAMBDA h :
         Try(ArgsInto(ctl, h.m, Tail(sig), Tail(xs)), LAMBDA t :
         Ok(t.m, <<h.x>> \o t.x)))

\* Args::transfer_args for a tuple of the signature sig (and for ())
transfer_args(ctl, m, sig, xs) ==
    Try(ArgsInto(ctl, m, sig, xs), LAMBDA vals :
    Try(VecInto(ctl, vals.m, "Value", vals.x), LAMBDA ta :
    Transfer(ctl, ta.m, "TransferredArray", ta.x)))

\* a faulty variant of accept_args that reports the two lengths swapped
accept_args_swapped(ctl, m, sig, ptr) ==
    Try(Receive(ctl, m, "TransferredArray", ptr), LAMBDA ta :
    Try(VecFrom(ctl, ta.m, "Value", ta.x), LAMBDA arr :
    IF Len(arr.x) # Len(sig)
    THEN Err(arr.m, InvalidArgs(Len(arr.x), Len(sig)))
    ELSE ArgsFrom(ctl, arr.m, sig, arr.x)))

\* Args::accept_args for a tuple of the signature sig (and for ())
accept_args(ctl, m, sig, ptr) ==
    Try(Receive(ctl, m, "TransferredArray", ptr), LAMBDA ta :
    Try(VecFrom(ctl, ta.m, "Value", ta.x), LAMBDA arr :
    IF Len(arr.x) # Len(sig)
    THEN Err(arr.m, InvalidArgs(Len(sig), Len(arr.x)))
    ELSE ArgsFrom(ctl, arr.m, sig, arr.x)))

(***************************************************************************)
(* Results of guest functions and CResult<Value> (utils.rs).               *)
(***************************************************************************)
\* what a user function returns: a plain value, Ok(value) or Err(message)
ROk(x) == [ok |-> TRUE, x |-> x]
RErr(msg) == [ok |-> FALSE, msg |-> msg]

COk(w) == [ty |-> "CResult<Value>", tag |-> 0, okv |-> w]
CErr(strand) == [ty |-> "CResult<Value>", tag |-> 1, errv |-> strand]

ReturnTypes == [plain : BOOLEAN, of : ArgTypes]

\* impl Transferrable<CResult<Value>> for T, for Result<T, String> and for
\* anyhow::Result<T>: into_transferrable
ResultInto(ctl, m, rty, r) ==
    IF r.ok
    THEN Try(ArgInto(ctl, m, rty.of, r.x), LAMBDA x : Ok(x.m, COk(x.x)))
    ELSE Try(StringInto(ctl, m, r.msg), LAMBDA e : Ok(e.m, CErr(e.x)))

\* ... from_transferrable: Ok(x) decodes x, Err(e) decodes the message
ResultFrom(ctl, m, ty, c) ==
    IF c.tag = 0
    THEN Try(ArgFrom(ctl, m, ty, c.okv), LAMBDA x : Ok(x.m, ROk(x.x)))
    ELSE Try(StringFrom(ctl, m, c.errv), LAMBDA e : Ok(e.m, RErr(e.x)))

(***************************************************************************)
(* Guest functions: the exported functions of the demo package and, for    *)
(* every arity the Args impls cover, a function of that many i64s.         *)
(***************************************************************************)
MaxArity == 10

TxtDivisionByZero == <<68, 122>>
TxtFailed == <<70, 97>>
TxtSuccess == <<83, 117>>

\* i64 division of Rust: truncated toward zero
TruncDiv(a, b) ==
    IF (a >= 0) = (b > 0) THEN (IF a >= 0 THEN a ELSE -a) \div (IF b > 0 THEN b ELSE -b)
    ELSE -((IF a >= 0 THEN a ELSE -a) \div (IF b > 0 THEN b ELSE -b))

Plain(ty) == [plain |-> TRUE, of |-> ty]
ResultOf(ty) == [plain |-> FALSE, of |-> ty]

can_drive == [name |-> "can_drive", sig |-> <<"i64">>, ret |-> Plain("bool")]
safe_divide == [name |-> "safe_divide", sig |-> <<"i64", "i64">>, ret |-> ResultOf("i64")]
result == [name |-> "result", sig |-> <<"bool">>, ret |-> ResultOf("String")]
js_support_agent_response_2 ==
    [name |-> "js_support_agent_response_2", sig |-> <<"String">>, ret |-> ResultOf("String")]
Nary(n) == [name |-> "nary", sig |-> [i \in 1..n |-> "i64"], ret |-> Plain("i64")]

DemoFns == {can_drive, safe_divide, result, js_support_agent_response_2}
UserFns == DemoFns \cup {Nary(n) : n \in 0..MaxArity}

\* the body of the function applied to its decoded arguments
Call(fn, args) ==
    CASE fn.name = "can_drive" -> ROk(Bool(args[1].i64 >= 18))
      [] fn.name = "safe_divide" ->
            IF args[2].i64 = 0 THEN RErr(TxtDivisionByZero)
            ELSE ROk(I64(TruncDiv(args[1].i64, args[2].i64)))
      [] fn.name = "result" ->
            IF args[1].bool THEN RErr(TxtFailed) ELSE ROk(Str(TxtSuccess))
      [] fn.name = "js_support_agent_response_2" -> ROk(args[1])
      [] fn.name = "nary" -> ROk(I64(Len(args)))

\* SurrealismFunction::invoke_raw (registry.rs); called: whether the user
\* function ran, user: what it returned
invoke_raw(ctl, m, fn, ptr) ==
    Bind(accept_args(ctl, m, fn.sig, ptr), LAMBDA args :
    IF args.st # "ok"
    THEN [res |-> Fail(args), called |-> FALSE, user |-> <<>>]
    ELSE Bind(Call(fn, args.x), LAMBDA r :
         [res |-> Try(ResultInto(ctl, args.m, fn.ret, r), LAMBDA c :
                  Transfer(ctl, c.m, "CResult<Value>", c.x)),
          called |-> TRUE,
          user |-> r]))

\* the generated export __sr_fnc__<name>: invoke_raw(..).unwrap().ptr
sr_fnc(m, fn, ptr) ==
    Bind(invoke_raw("guest", m, fn, ptr), LAMBDA r :
    [res |-> IF r.res.st = "err" THEN Panic(r.res.m, r.res.e) ELSE r.res,
     called |-> r.called,
     user |-> r.user])

(***************************************************************************)
(* The inputs of the model: strings and byte strings of at most MaxLen     *)
(* bytes, scalars of every variant, and arrays, objects and record ids     *)
(* built from them (two levels of nesting).                                *)
(***************************************************************************)
SeqsUpTo(S, n) == UNION {[1..k -> S] : k \in 0..n}
MapsOver(K, S) == UNION {[D -> S] : D \in SUBSET K}

ByteVals == {97, 195, 169}
ByteStrs == SeqsUpTo(ByteVals, MaxLen)
Strs == {s \in ByteStrs : IsUtf8(s)}
Keys == {<<97>>, <<97, 97>>, <<195, 169>>}

Ints == {-1, 0, 7}
Floats == {"0.5", "NaN"}
Durations == {[secs |-> 0, nanos |-> 0], [secs |-> 90, nanos |-> 5]}
Datetimes == {[secs |-> -1, nanos |-> 0], [secs |-> 60, nanos |-> 5],
              [secs |-> 119, nanos |-> NanosPerSec + 5]}
Uuids == {"nil", "u4"}

Scalars ==
    {VNone, VNull} \cup {VBool(b) : b \in BOOLEAN}
    \cup {VInt(i) : i \in Ints} \cup {VFloat(f) : f \in Floats}
    \cup {VStrand(s) : s \in Strs} \cup {VDuration(d) : d \in Durations}
    \cup {VDatetime(dt) : dt \in Datetimes} \cup {VUuid(u) : u \in Uuids}
    \cup {VBytes(by) : by \in ByteStrs}

Elems0 == {VNone, VNull, VBool(TRUE), VInt(7), VFloat("NaN"), VStrand(<<>>),
           VStrand(<<97>>), VBytes(<<195>>)}

Ids0 == {IdNumber(i) : i \in Ints} \cup {IdString(s) : s \in Strs}
        \cup {IdArray(a) : a \in SeqsUpTo({VInt(7), VStrand(<<97>>)}, 1)}
        \cup {IdObject(o) : o \in MapsOver({<<97>>}, {VNull, VStrand(<<97>>)})}

Compound1 ==
    {VArray(a) : a \in SeqsUpTo(Elems0, MaxLen)}
    \cup {VObject(o) : o \in MapsOver(Keys, {VNone, VInt(7), VStrand(<<97>>)})}
    \cup {VThing(tb, id) : tb \in {<<>>, <<97>>}, id \in Ids0}

Elems1 == {VArray(<<>>), VArray(<<VStrand(<<97>>)>>), VObject(<<>>),
           VObject((<<97>> :> VNull)), VThing(<<97>>, IdNumber(7))}

Compound2 ==
    {VArray(a) : a \in SeqsUpTo(Elems1 \cup {VNull}, MaxLen) \ SeqsUpTo({VNull}, MaxLen)}
    \cup {VObject(o) : o \in MapsOver({<<97>>, <<97, 97>>}, Elems1) \ {<<>>}}

Values == Scalars \cup Compound1 \cup Compound2

Instances == {NewMem(occ, z) : occ \in 0..NumSlots, z \in BOOLEAN}

Lens == {None, Some(0), Some(3)}
Kinds0 == {KUnit(n) : n \in UnitKinds}
KElems == {KUnit("Any"), KUnit("String"), KOption(KUnit("Int")), KRecord(<<<<97>>>>)}
KMaps == MapsOver({<<97>>, <<195, 169>>}, {KUnit("Bool"), KRecord(<<>>)})
Literals ==
    {LString(s) : s \in Strs} \cup {LNumber(NInt(7)), LNumber(NFloat("0.5"))}
    \cup {LDuration(d) : d \in Durations} \cup {LBool(b) : b \in BOOLEAN}
    \cup {LArray(ks) : ks \in SeqsUpTo(KElems, MaxLen)}
    \cup {LObject(o) : o \in KMaps}
    \cup {LDiscriminatedObject(key, vs) : key \in {<<>>, <<97>>},
                                          vs \in SeqsUpTo(KMaps, 1)}
Kinds1 ==
    {KRecord(tbs) : tbs \in SeqsUpTo(Strs, MaxLen)}
    \cup {KGeometry(gs) : gs \in SeqsUpTo({<<97>>, <<>>}, MaxLen)}
    \cup {KOption(k) : k \in KElems}
    \cup {KEither(ks) : ks \in SeqsUpTo(KElems, MaxLen)}
    \cup {KSet(k, len) : k \in KElems, len \in Lens}
    \cup {KArray(k, len) : k \in KElems, len \in Lens}
    \cup {KFunction(args, returns) :
            args \in {None} \cup {Some(ks) : ks \in SeqsUpTo({KUnit("Any"), KOption(KUnit("Int"))}, MaxLen)},
            returns \in {None} \cup {Some(k) : k \in KElems}}
    \cup {KLiteral(l) : l \in Literals}
Kinds2 ==
    {KOption(KOption(KUnit("Any"))), KArray(KArray(KUnit("Int"), Some(3)), None),
     KEither(<<KLiteral(LBool(TRUE)), KLiteral(LObject((<<97>> :> KUnit("Int"))))>>),
     KFunction(Some(<<KEither(<<KUnit("Int"), KUnit("Null")>>)>>),
               Some(KSet(KRecord(<<<<97>>>>), Some(0)))),
     KLiteral(LArray(<<KLiteral(LString(<<97>>)), KArray(KUnit("Any"), None)>>)),
     KUnsupported}
Kinds == Kinds0 \cup Kinds1 \cup Kinds2

\* typed argument tuples: a signature and the arguments of its types
TypedArgs(sig, xss) == {[sig |-> sig, xs |-> xs] : xs \in xss}
ArgLists ==
    TypedArgs(<<>>, {<<>>})
    \cup TypedArgs(<<"i64">>, {<<I64(i)>> : i \in Ints})
    \cup TypedArgs(<<"bool">>, {<<Bool(b)>> : b \in BOOLEAN})
    \cup TypedArgs(<<"String">>, {<<Str(str)>> : str \in Strs})
    \cup TypedArgs(<<"sql::Value">>, {<<v>> : v \in Elems0 \cup Elems1})
    \cup TypedArgs(<<"i64", "i64">>, {<<I64(a), I64(b)>> : a \in Ints, b \in Ints})
    \cup TypedArgs(<<"String", "i64">>, {<<Str(str), I64(7)>> : str \in Strs})
    \cup TypedArgs(<<"f64", "bool", "String">>,
                   {<<F64(f), Bool(TRUE), Str(<<97>>)>> : f \in Floats})
    \cup TypedArgs(<<"sql::Value", "sql::Value">>, {<<v, w>> : v \in Elems1, w \in Elems0})

(***************************************************************************)
(* The transfer engine as a state machine: an instance is created, a value *)
(* is encoded through a controller (pc = "encoded", cur.ptr the pointer    *)
(* handed over), the other side decodes the pointer (pc = "decoded").      *)
(*   cur.before : the outstanding blocks before the encode                 *)
(*   mem.log    : the allocator and memory events since the encode began   *)
(***************************************************************************)
Idle == [what |-> "none"]

Started(what, ctl, inp, r) ==
    [what |-> what, ctl |-> ctl, inp |-> inp, before |-> LiveSet(mem),
     st |-> r.st, e |-> r.e, ptr |-> r.x, out |-> <<>>]

Finished(r) == [cur EXCEPT !.st = r.st, !.e = r.e, !.out = r.x]

InitTransfer ==
    /\ mem \in Instances
    /\ pc = "idle"
    /\ cur = Idle

\* Controller::from_package / a fresh guest: a new instance
NewInstance ==
    /\ pc \in {"decoded", "failed", "done"}
    /\ mem' \in Instances
    /\ pc' = "idle"
    /\ cur' = Idle

\* value.into_transferrable(controller)?.transfer(controller)
EncodeValue ==
    /\ pc = "idle"
    /\ \E ctl \in Controllers, v \in Values :
          LET r == TransferValue(ctl, mem, v)
          IN /\ mem' = r.m
             /\ cur' = Started("Value", ctl, v, r)
             /\ pc' = IF r.st = "ok" THEN "encoded" ELSE "failed"

\* sql::Value::from_transferrable(Value::receive(ptr.into(), controller)?, controller)
DecodeValue ==
    /\ pc = "encoded"
    /\ cur.what = "Value"
    /\ LET r == ReceiveValue(cur.ctl, mem, cur.ptr)
       IN /\ mem' = r.m
          /\ cur' = Finished(r)
          /\ pc' = "decoded"

\* kind.into_transferrable(controller)?.transfer(controller)
EncodeKind ==
    /\ pc = "idle"
    /\ \E ctl \in Controllers, k \in Kinds :
          LET r == TransferKind(ctl, mem, k)
          IN /\ mem' = r.m
             /\ cur' = Started("Kind", ctl, k, r)
             /\ pc' = IF r.st = "ok" THEN "encoded" ELSE "failed"

\* sql::Kind::from_transferrable(Kind::receive(ptr, controller)?, controller)
DecodeKind ==
    /\ pc = "encoded"
    /\ cur.what = "Kind"
    /\ LET r == ReceiveKind(cur.ctl, mem, cur.ptr)
       IN /\ mem' = r.m
          /\ cur' = Finished(r)
          /\ pc' = "decoded"

\* args.transfer_args(controller)
EncodeArgs ==
    /\ pc = "idle"
    /\ \E ctl \in Controllers, a \in ArgLists :
          LET r == transfer_args(ctl, mem, a.sig, a.xs)
          IN /\ mem' = r.m
             /\ cur' = Started("Args", ctl, a, r)
             /\ pc' = IF r.st = "ok" THEN "encoded" ELSE "failed"

\* A::accept_args(transferred, controller) for the same signature
DecodeArgs ==
    /\ pc = "encoded"
    /\ cur.what = "Args"
    /\ LET r == accept_args(cur.ctl, mem, cur.inp.sig, cur.ptr)
       IN /\ mem' = r.m
          /\ cur' = Finished(r)
          /\ pc' = "decoded"

NextTransfer ==
    \/ NewInstance
    \/ EncodeValue
    \/ DecodeValue
    \/ EncodeKind
    \/ DecodeKind
    \/ EncodeArgs
    \/ DecodeArgs

SpecTransfer == InitTransfer /\ [][NextTransfer]_vars

(***************************************************************************)
(* Events of the log.                                                      *)
(***************************************************************************)
AllocsOf(m) == {i \in DOMAIN m.log : m.log[i].op = "alloc"}
FreesOf(m) == {i \in DOMAIN m.log : m.log[i].op = "free"}
FreesOfBlock(m, i) == {j \in FreesOf(m) : m.log[j].ptr = m.log[i].ptr /\ j > i}

NoLeak ==
    (pc = "decoded" /\ cur.st = "ok") =>
        /\ LiveSet(mem) = cur.before
        /\ ~mem.ub
        /\ \A i \in AllocsOf(mem) :
              /\ Cardinality(FreesOfBlock(mem, i)) = 1
              /\ \A j \in FreesOfBlock(mem, i) : mem.log[j].len = mem.log[i].len
        /\ Cardinality(FreesOf(mem)) = Cardinality(AllocsOf(mem))

NoLeakWitness ==
    /\ pc = "decoded"
    /\ cur.st = "ok"
    /\ Cardinality(AllocsOf(mem)) >= 4
    /\ cur.before # {}
    /\ LiveSet(mem) = cur.before

AllocLens == {0, 8, SlotSize + 1, ISizeMax - 6}
AllocAligns == {0, 3, 8, SignBit}
FreePtrs == SlotAddrs \cup {0}
FreeLens == {0, 8, ISizeMax - 6}
AllocInstances == {NewMem(occ, z) : occ \in {0, NumSlots - 1, NumSlots}, z \in BOOLEAN}

Unlogged(m) == [m EXCEPT !.log = <<>>]

NoCall == [op |-> "none", n |-> 0, owned |-> {}, freed |-> {}]

InitAlloc ==
    /\ mem \in AllocInstances
    /\ pc = "ready"
    /\ cur = NoCall

\* the blocks <<p, len>> handed out by __sr_alloc and not freed since, and
\* those freed once with their length and not handed out again since
OwnedAfterAlloc(ret, len) ==
    IF ret = -1 THEN cur.owned
    ELSE {b \in cur.owned : b[1] # AsU32(ret)} \cup {<<AsU32(ret), len>>}
FreedAfterAlloc(ret) ==
    IF ret = -1 THEN cur.freed ELSE {b \in cur.freed : b[1] # AsU32(ret)}
OwnedAfterFree(ret, ptr) ==
    IF ret = 0 THEN {b \in cur.owned : b[1] # ptr} ELSE cur.owned
FreedAfterFree(ret, ptr, len) ==
    IF ret = 0 /\ <<ptr, len>> \in cur.owned THEN cur.freed \cup {<<ptr, len>>}
    ELSE cur.freed

\* __sr_alloc(len, align)
CallAlloc ==
    /\ pc = "ready"
    /\ cur.n < MaxOps
    /\ \E len \in AllocLens, align \in AllocAligns :
          LET r == sr_alloc(Unlogged(mem), len, align)
          IN /\ mem' = r.m
             /\ cur' = [op |-> "alloc", n |-> cur.n + 1, len |-> len, align |-> align,
                        ptr |-> 0, ret |-> r.ret, prev |-> Unlogged(mem),
                        first |-> FALSE, again |-> FALSE,
                        owned |-> OwnedAfterAlloc(r.ret, len),
                        freed |-> FreedAfterAlloc(r.ret)]
             /\ pc' = "ready"

\* __sr_free(ptr, len); releasing an address that holds no live block is
\* undefined: the call returns (the heap is then corrupt) or the guest traps
CallFree ==
    /\ pc = "ready"
    /\ cur.n < MaxOps
    /\ \E ptr \in FreePtrs, len \in FreeLens :
          LET r == sr_free(Unlogged(mem), ptr, len)
          IN /\ mem' = r.m
             /\ cur' = [op |-> "free", n |-> cur.n + 1, len |-> len, align |-> FreeAlign,
                        ptr |-> ptr, ret |-> r.ret, prev |-> Unlogged(mem),
                        first |-> <<ptr, len>> \in cur.owned,
                        again |-> <<ptr, len>> \in cur.freed,
                        owned |-> OwnedAfterFree(r.ret, ptr),
                        freed |-> FreedAfterFree(r.ret, ptr, len)]
             /\ pc' \in IF r.m.ub THEN {"ready", "trapped"} ELSE {"ready"}

\* a fresh instance
ResetAlloc ==
    /\ pc = "trapped" \/ cur.n = MaxOps
    /\ mem' \in AllocInstances
    /\ pc' = "ready"
    /\ cur' = NoCall

NextAlloc ==
    \/ CallAlloc
    \/ CallFree
    \/ ResetAlloc

SpecAlloc == InitAlloc /\ [][NextAlloc]_vars

\* the last call returned to its caller
Returned(op) == pc = "ready" /\ cur.op = op

\* C8: the first free(p, len) of a block that __sr_alloc(len, align) handed
\* out at p returns 0, and a further free(p, len) with no allocation at p in
\* between does not return 0.
FreeSucceedsOnce ==
    Returned("free") =>
        /\ cur.first => cur.ret = 0
        /\ cur.again => cur.ret # 0

\* C9: __sr_alloc returns -1 when the layout is invalid or the heap has no
\* block to give, and leaves the heap as it was; otherwise it returns the
\* offset of a block that was not outstanding before and is outstanding now,
\* with the requested length.  __sr_free returns -1 on an invalid layout,
\* deallocating nothing, and 0 when it released an outstanding block.
AllocFreeReport ==
    /\ Returned("alloc") =>
          /\ ~LayoutOk(cur.len, cur.align) => cur.ret = -1
          /\ (FreeSlots(cur.prev) = {} \/ cur.len > SlotSize) => cur.ret = -1
          /\ cur.ret = -1 => mem.cell = cur.prev.cell
          /\ cur.ret # -1 =>
                LET p == AsU32(cur.ret)
                IN /\ LayoutOk(cur.len, cur.align)
                   /\ p \in SlotAddrs
                   /\ ~IsLive(cur.prev, p)
                   /\ LiveSet(mem) = LiveSet(cur.prev) \cup {p}
                   /\ mem.cell[SlotOf(p)].len = cur.len
    /\ Returned("free") =>
          /\ cur.ret \in {0, -1}
          /\ cur.ret = -1 <=> ~LayoutOk(cur.len, FreeAlign)
          /\ cur.ret = -1 => mem.cell = cur.prev.cell /\ mem.log = <<>>
          /\ (cur.ret = 0 /\ IsLive(cur.prev, cur.ptr)) =>
                LiveSet(mem) = LiveSet(cur.prev) \ {cur.ptr}

AllocFreeReportWitness ==
    /\ Returned("free")
    /\ cur.ret = -1
    /\ IsLive(mem, cur.ptr)
    /\ cur.ptr >= SignBit
    /\ mem.cell[SlotOf(cur.ptr)] # ForeignCell

(***************************************************************************)
(* Invocation of a guest function by the host (Controller::invoke): the    *)
(* host encodes the arguments ("called"), the export runs in the guest     *)
(* ("returned", or "trapped" when it panics), the host decodes what the    *)
(* export returned ("done").                                               *)
(***************************************************************************)
Repeat(v, n) == [i \in 1..n |-> v]

HostArgs ==
    {Repeat(VInt(7), n) : n \in 0..(MaxArity + 1)}
    \cup {<<v>> : v \in {VInt(18), VInt(-1), VBool(TRUE), VBool(FALSE), VNull,
                         VStrand(<<>>), VStrand(<<97>>), VFloat("0.5")}}
    \cup {<<VInt(a), VInt(b)>> : a \in {-1, 7}, b \in Ints}
    \cup {<<VInt(7), VStrand(<<97>>)>>, <<VStrand(<<97>>), VInt(7)>>}

\* the sql::Value of a native value
ToSql(x) ==
    CASE "i64" \in DOMAIN x -> VInt(x.i64)
      [] "f64" \in DOMAIN x -> VFloat(x.f64)
      [] "bool" \in DOMAIN x -> VBool(x.bool)
      [] "str" \in DOMAIN x -> VStrand(x.str)
      [] OTHER -> x

InitInvoke ==
    /\ mem \in Instances
    /\ pc = "idle"
    /\ cur = Idle

\* let args = args.transfer_args(self)?;
InvokeTransferArgs ==
    /\ pc = "idle"
    /\ \E fn \in UserFns, args \in HostArgs :
          LET r == transfer_args("outer", mem, Repeat("sql::Value", Len(args)), args)
          IN /\ mem' = r.m
             /\ cur' = [what |-> "invoke", fn |-> fn, args |-> args,
                        before |-> LiveSet(mem), st |-> r.st, e |-> r.e, ptr |-> r.x,
                        called |-> FALSE, user |-> <<>>, retptr |-> 0, out |-> <<>>]
             /\ pc' = IF r.st = "ok" THEN "called" ELSE "failed"

\* let (ptr,) = invoke.call(&mut self.store, (args.ptr(),))?; the export runs
ExportCall ==
    /\ pc = "called"
    /\ LET r == sr_fnc(mem, cur.fn, cur.ptr)
       IN /\ mem' = r.res.m
          /\ cur' = [cur EXCEPT !.st = r.res.st, !.e = r.res.e, !.called = r.called,
                                !.user = r.user,
                                !.retptr = IF r.res.st = "ok" THEN r.res.x ELSE 0]
          /\ pc' = IF r.res.st = "ok" THEN "returned" ELSE "trapped"

\* the call of the export failed with a trap: invoke returns the error
InvokeTrap ==
    /\ pc = "trapped"
    /\ mem' = mem
    /\ cur' = [cur EXCEPT !.st = "err", !.e = <<"trap">>]
    /\ pc' = "done"

\* let value = Value::receive(ptr.into(), self)?;
\* sql::Value::from_transferrable(value, self)
InvokeReceive ==
    /\ pc = "returned"
    /\ LET r == ReceiveValue("outer", mem, cur.retptr)
       IN /\ mem' = r.m
          /\ cur' = [cur EXCEPT !.st = r.st, !.e = r.e, !.out = r.x]
          /\ pc' = "done"

NextInvoke ==
    \/ NewInstance
    \/ InvokeTransferArgs
    \/ ExportCall
    \/ InvokeTrap
    \/ InvokeReceive

SpecInvoke == InitInvoke /\ [][NextInvoke]_vars

\* the message of a host-level failure ends with msg
EndsWith(e, msg) ==
    /\ Len(e) = 2
    /\ e[1] = "msg"
    /\ Len(e[2]) >= Len(msg)
    /\ SubSeq(e[2], Len(e[2]) - Len(msg) + 1, Len(e[2])) = msg

\* C3: when the guest function returned Ok(v), invoke returns v; when it
\* returned Err(msg), invoke fails with a message that ends with msg.
InvokeDecodesResult ==
    (pc = "done" /\ cur.called /\ cur.retptr # 0) =>
        IF cur.user.ok
        THEN cur.st = "ok" /\ cur.out = ToSql(cur.user.x)
        ELSE cur.st = "err" /\ EndsWith(cur.e, cur.user.msg)

\* C4: an argument array whose length m differs from the arity n of the
\* function makes the decoding of the arguments fail with InvalidArgs(n, m),
\* and the function is not called.
WrongCountInvalidArgs ==
    (pc \in {"returned", "trapped"} /\ Len(cur.args) # Len(cur.fn.sig)) =>
        /\ ~cur.called
        /\ cur.st # "ok"
        /\ Len(cur.e) = 3
        /\ cur.e[1] = "InvalidArgs"
        /\ cur.e[2] = Len(cur.fn.sig)
        /\ cur.e[3] = Len(cur.args)

WrongCountInvalidArgsWitness ==
    /\ pc = "trapped"
    /\ Len(cur.fn.sig) = MaxArity
    /\ Len(cur.args) = MaxArity + 1
    /\ cur.e = InvalidArgs(MaxArity, MaxArity + 1)
    /\ ~cur.called

\* the argument array does not fit the signature of the function
WrongCount == Len(cur.args) # Len(cur.fn.sig)
WrongType == ~WrongCount /\ ~cur.called

\* C5: when the export receives an argument array of the wrong length or an
\* argument of the wrong type, or the function returns Err, the export
\* returns a pointer to an encoded Result::Err and does not trap.
ErrorsInBand ==
    (/\ pc \in {"returned", "trapped"}
     /\ \/ WrongCount
        \/ WrongType
        \/ (cur.called /\ ~cur.user.ok)) =>
        /\ pc = "returned"
        /\ ItemsAt(mem, cur.retptr) # <<>>
        /\ ItemsAt(mem, cur.retptr)[1].ty = "CResult<Value>"
        /\ ItemsAt(mem, cur.retptr)[1].tag = 1

(***************************************************************************)
(* Host imports (host.rs) and their guest-side wrappers (imports.rs).      *)
(* An import is described by the types of its parameters, the payload of   *)
(* the Result it returns, and what the guest wrapper does with the decoded *)
(* CResult: "from" (Result::from_transferrable), "try_ok" or "ignore"      *)
(* (the CResult is received and dropped).                                  *)
(***************************************************************************)
sr_sql == [name |-> "sql", params |-> <<"String", "sql::Object">>,
           ret |-> "Value", guest |-> "from"]
sr_run == [name |-> "run", params |-> <<"String", "Option<String>", "Args">>,
           ret |-> "Value", guest |-> "from"]
sr_kv_get == [name |-> "kv_get", params |-> <<"String">>,
              ret |-> "COption<Value>", guest |-> "from"]
sr_kv_set == [name |-> "kv_set", params |-> <<"String", "sql::Value">>,
              ret |-> "unit", guest |-> "try_ok"]
sr_kv_del == [name |-> "kv_del", params |-> <<"String">>,
              ret |-> "unit", guest |-> "ignore"]
sr_kv_exists == [name |-> "kv_exists", params |-> <<"String">>,
                 ret |-> "bool", guest |-> "try_ok"]
sr_kv_del_rng == [name |-> "kv_del_rng", params |-> <<"Range">>,
                  ret |-> "unit", guest |-> "ignore"]
sr_kv_set_batch == [name |-> "kv_set_batch", params |-> <<"Entries">>,
                    ret |-> "unit", guest |-> "ignore"]
sr_kv_del_batch == [name |-> "kv_del_batch", params |-> <<"Vec<String>">>,
                    ret |-> "unit", guest |-> "ignore"]
sr_ml_invoke_model ==
    [name |-> "ml_invoke_model", params |-> <<"String", "sql::Value", "i64", "String">>,
     ret |-> "Value", guest |-> "from"]

Imports == {sr_sql, sr_run, sr_kv_get, sr_kv_set, sr_kv_del, sr_kv_exists,
            sr_kv_del_rng, sr_kv_set_batch, sr_kv_del_batch, sr_ml_invoke_model}

\* the #[repr(C)] type a parameter travels as
WireOf(ty) ==
    CASE ty = "sql::Value" -> "Value"
      [] ty = "i64" -> "i64"
      [] ty = "Option<String>" -> "COption<Strand>"
      [] ty = "Range" -> "CRange<Strand>"
      [] OTHER -> "TransferredArray"

CResultOf(ret) ==
    CASE ret = "Value" -> "CResult<Value>"
      [] ret = "COption<Value>" -> "CResult<COption<Value>>"
      [] ret = "unit" -> "CResult<unit>"
      [] ret = "bool" -> "CResult<bool>"

\* std::ops::Bound<String> and its wire form inside CRange<Strand>
Unbounded == [bound |-> "Unbounded"]
Included(s) == [bound |-> "Included", v |-> s]
Excluded(s) == [bound |-> "Excluded", v |-> s]

BoundInto(ctl, m, b) ==
    IF b.bound = "Unbounded" THEN Ok(m, [tag |-> 0])
    ELSE Try(StringInto(ctl, m, b.v), LAMBDA s :
         Ok(s.m, [tag |-> IF b.bound = "Included" THEN 1 ELSE 2, v |-> s.x]))

BoundFrom(ctl, m, w) ==
    IF w.tag = 0 THEN Ok(m, Unbounded)
    ELSE Try(StringFrom(ctl, m, w.v), LAMBDA s :
         Ok(s.m, IF w.tag = 1 THEN Included(s.x) ELSE Excluded(s.x)))

\* CRange::<Strand>::from_range_bounds
RangeInto(ctl, m, r) ==
    Try(BoundInto(ctl, m, r.start), LAMBDA s :
    Try(BoundInto(ctl, s.m, r.end), LAMBDA e :
    Ok(e.m, [ty |-> "CRange<Strand>", start |-> s.x, end |-> e.x])))

RangeFrom(ctl, m, w) ==
    Try(BoundFrom(ctl, m, w.start), LAMBDA s :
    Try(BoundFrom(ctl, s.m, w.end), LAMBDA e :
    Ok(e.m, [start |-> s.x, end |-> e.x])))

\* impl Transferrable<COption<Strand>> for Option<String> (utils.rs)
OptStringInto(ctl, m, o) ==
    IF ~o.some THEN Ok(m, [ty |-> "COption<Strand>", tag |-> 0])
    ELSE Try(StringInto(ctl, m, o.v), LAMBDA s :
         Ok(s.m, [ty |-> "COption<Strand>", tag |-> 1, v |-> s.x]))

OptStringFrom(ctl, m, c) ==
    IF OptionFrom(c).some
    THEN Try(StringFrom(ctl, m, c.v), LAMBDA s : Ok(s.m, Some(s.x)))
    ELSE Ok(m, None)

\* Vec<(String, V)>: the entries collected, then the vector of pairs
PairsInto(ctl, m, es) ==
    Try(EntriesInto(ctl, m, es), LAMBDA r : VecInto(ctl, r.m, "KeyValuePair", r.x))

PairsFrom(ctl, m, ta) ==
    Try(VecFrom(ctl, m, "KeyValuePair", ta), LAMBDA r : EntriesFrom(ctl, r.m, r.x))

\* the guest encodes one parameter of an import and transfers it
ParamInto(ctl, m, ty, x) ==
    CASE ty = "String" -> StringInto(ctl, m, x)
      [] ty = "sql::Value" -> ValueInto(ctl, m, x)
      [] ty = "i64" -> Ok(m, [ty |-> "i64", v |-> x])
      [] ty = "Option<String>" -> OptStringInto(ctl, m, x)
      [] ty = "sql::Object" -> PairsInto(ctl, m, x)
      [] ty = "Entries" -> PairsInto(ctl, m, x)
      [] ty = "Vec<String>" -> StrandsInto(ctl, m, x)
      [] ty = "Range" -> RangeInto(ctl, m, x)

ParamTransfer(ctl, m, ty, x) ==
    IF ty = "Args"
    THEN transfer_args(ctl, m, Repeat("sql::Value", Len(x)), x)
    ELSE Try(ParamInto(ctl, m, ty, x), LAMBDA w :
         Transfer(ctl, w.m, WireOf(ty), w.x))

RECURSIVE ParamsTransfer(_, _, _, _)
ParamsTransfer(ctl, m, tys, xs) ==
    IF tys = <<>> THEN Ok(m, <<>>)
    ELSE Try(ParamTransfer(ctl, m, Head(tys), Head(xs)), LAMBDA h :
         Try(ParamsTransfer(ctl, h.m, Tail(tys), Tail(xs)), LAMBDA t :
         Ok(t.m, <<h.x>> \o t.x)))

\* the body of a host import decodes one received parameter
ParamFrom(ctl, m, ty, w) ==
    CASE ty = "String" -> StringFrom(ctl, m, w)
      [] ty = "sql::Value" -> ValueFrom(ctl, m, w)
      [] ty = "i64" -> Ok(m, w.v)
      [] ty = "Option<String>" -> OptStringFrom(ctl, m, w)
      [] ty = "Args" -> ArrayFrom(ctl, m, w)
      [] ty = "sql::Object" -> ObjectFrom(ctl, m, w)
      [] ty = "Entries" -> PairsFrom(ctl, m, w)
      [] ty = "Vec<String>" -> StrandsFrom(ctl, m, w)
      [] ty = "Range" -> RangeFrom(ctl, m, w)

\* $(let $arg = host_try_or_return!(.., <$arg_ty>::receive($arg.into(), ..));)*
RECURSIVE ParamsReceive(_, _, _, _)
ParamsReceive(ctl, m, tys, ptrs) ==
    IF tys = <<>> THEN Ok(m, <<>>)
    ELSE Try(Receive(ctl, m, WireOf(Head(tys)), Head(ptrs)), LAMBDA h :
         Try(ParamsReceive(ctl, h.m, Tail(tys), Tail(ptrs)), LAMBDA t :
         Ok(t.m, <<h.x>> \o t.x)))

RECURSIVE ParamsFrom(_, _, _, _)
ParamsFrom(ctl, m, tys, ws) ==
    IF tys = <<>> THEN Ok(m, <<>>)
    ELSE Try(ParamFrom(ctl, m, Head(tys), Head(ws)), LAMBDA h :
         Try(ParamsFrom(ctl, h.m, Tail(tys), Tail(ws)), LAMBDA t :
         Ok(t.m, <<h.x>> \o t.x)))

\* the payload of a successful import, encoded by the body of the import
PayloadInto(ctl, m, ret, x) ==
    CASE ret = "Value" -> ValueInto(ctl, m, x)
      [] ret = "COption<Value>" ->
            IF x.some
            THEN Try(ValueInto(ctl, m, x.v), LAMBDA v : Ok(v.m, CSome(v.x)))
            ELSE Ok(m, CNone)
      [] ret = "unit" -> Ok(m, [unit |-> TRUE])
      [] ret = "bool" -> Ok(m, [bool |-> x.bool])

PayloadFrom(ctl, m, ret, w) ==
    CASE ret = "Value" -> ValueFrom(ctl, m, w)
      [] ret = "COption<Value>" ->
            IF OptionFrom(w).some
            THEN Try(ValueFrom(ctl, m, w.v), LAMBDA v : Ok(v.m, Some(v.x)))
            ELSE Ok(m, None)
      [] ret = "unit" -> Ok(m, <<>>)
      [] ret = "bool" -> Ok(m, Bool(w.bool))

\* e.to_string() of an error raised inside the body of an import
TxtInvalidArgs == <<73, 97>>
TxtUnexpectedType == <<85, 116>>
TxtUnsupportedKind == <<85, 107>>
ErrText(e) ==
    CASE e[1] = "msg" -> e[2]
      [] e[1] = "InvalidDatetime" -> TxtInvalidDatetime
      [] e[1] = "InvalidArgs" -> TxtInvalidArgs
      [] e[1] = "UnexpectedType" -> TxtUnexpectedType
      [] OTHER -> TxtUnsupportedKind

\* the closure of register_host_function!: the parameters are decoded in
\* the order the body names them, the backend answers with outcome (Ok of a
\* payload or Err of a message), the payload is encoded
ImportBody(ctl, m, imp, ws, outcome) ==
    Try(ParamsFrom(ctl, m, imp.params, ws), LAMBDA args :
    IF ~outcome.ok THEN Err(args.m, Msg(outcome.msg))
    ELSE PayloadInto(ctl, args.m, imp.ret, outcome.x))

\* what the wrapper of an import hands back to wasm: the i32 returned, and
\* why (for -1: "receive", "error" or "transfer"; else the CResult variant)
Returned32(m, ret, why, asked) ==
    [m |-> m, st |-> "ok", ret |-> ret, why |-> why, asked |-> asked]

\* register_host_function!: the function wrapped around the body
HostImport(m, imp, ptrs, outcome) ==
    Bind(ParamsReceive("host", m, imp.params, ptrs), LAMBDA args :
    IF args.st = "panic"
    THEN [m |-> args.m, st |-> "panic", ret |-> 0, why |-> "panic", asked |-> FALSE]
    ELSE IF args.st = "err" THEN Returned32(args.m, -1, "receive", FALSE)
    ELSE
    Bind(ImportBody("host", args.m, imp, args.x, outcome), LAMBDA body :
    Bind(ParamsFrom("host", args.m, imp.params, args.x).st = "ok", LAMBDA asked :
    IF body.st = "panic"
    THEN [m |-> body.m, st |-> "panic", ret |-> 0, why |-> "panic", asked |-> FALSE]
    ELSE
    Bind(IF body.st = "err" THEN StringInto("host", body.m, ErrText(body.e))
         ELSE body, LAMBDA text :
    IF text.st # "ok" THEN Returned32(text.m, -1, "error", asked)
    ELSE
    Bind(Transfer("host", text.m, CResultOf(imp.ret),
                  IF body.st = "ok"
                  THEN [ty |-> CResultOf(imp.ret), tag |-> 0, okv |-> body.x]
                  ELSE [ty |-> CResultOf(imp.ret), tag |-> 1, errv |-> text.x]),
         LAMBDA tr :
    IF tr.st # "ok" THEN Returned32(tr.m, -1, "transfer", asked)
    ELSE Returned32(tr.m, AsI32(tr.x), IF body.st = "ok" THEN "Ok" ELSE "Err",
                    asked))))))

\* a faulty variant of TryFromI32 that casts the i32 (ptr as u32)
TryFromI32Cast(m, ptr) == Ok(m, AsU32(ptr))

\* impl TryFrom<i32> for Transferred<T> (convert.rs): the handle, or the
\* error "Failed to process transfer, pointer is negative"
TryFromI32(m, ptr) ==
    IF ptr < 0 THEN Err(m, Msg(TxtNegativePtr))
    ELSE Ok(m, AsU32(ptr))

\* CResult::<T>::receive(result.try_into()?, &mut controller)
ReceiveResult(ctl, m, imp, ret) ==
    Try(TryFromI32(m, ret), LAMBDA h :
    Receive(ctl, m, CResultOf(imp.ret), h.x))

\* CResult::try_ok: Ok(x) is x, Err(e) is an error of the message e
try_ok(ctl, m, c) ==
    IF c.tag = 0 THEN Ok(m, IF "bool" \in DOMAIN c.okv THEN Bool(c.okv.bool) ELSE <<>>)
    ELSE Try(StringFrom(ctl, m, c.errv), LAMBDA e : Err(e.m, Msg(e.x)))

\* impl Transferrable<CResult<X>> for anyhow::Result<T>: from_transferrable,
\* flattened by the `?` that follows it in the wrappers
ResultFromTransferrable(ctl, m, imp, c) ==
    IF c.tag = 0 THEN PayloadFrom(ctl, m, imp.ret, c.okv)
    ELSE Try(StringFrom(ctl, m, c.errv), LAMBDA e : Err(e.m, Msg(e.x)))

\* the part of a guest wrapper after the import returned
ImportFinish(ctl, m, imp, ret) ==
    Try(ReceiveResult(ctl, m, imp, ret), LAMBDA c :
    CASE imp.guest = "from" -> ResultFromTransferrable(ctl, c.m, imp, c.x)
      [] imp.guest = "try_ok" -> try_ok(ctl, c.m, c.x)
      [] imp.guest = "ignore" -> Ok(c.m, <<>>))

(***************************************************************************)
(* A call of a host import by guest code as a state machine: the wrapper   *)
(* encodes the parameters ("calling"), the import runs on the host against *)
(* a backend that answers Ok or Err ("imported"), the wrapper decodes what *)
(* the import returned ("done").                                           *)
(***************************************************************************)
TxtEmptySql == <<83, 113>>
TxtBackend == <<66, 101>>

\* the characters str::trim removes that the model's strings use: tab, line
\* feed, vertical tab, form feed, carriage return, space
WhiteSpace == {9, 10, 11, 12, 13, 32}

\* sql.is_empty(): the test without the trim
IsEmptyString(s) == s = <<>>

\* sql.trim().is_empty()
IsBlank(s) == \A i \in 1..Len(s) : s[i] \in WhiteSpace

ParamInputs(ty) ==
    CASE ty = "String" -> {<<>>, <<32>>, <<10, 32>>, <<32, 97>>, <<97>>}
      [] ty = "sql::Value" -> {VNone, VInt(7), VStrand(<<97>>)}
      [] ty = "i64" -> {7}
      [] ty = "Option<String>" -> {None, Some(<<97>>)}
      [] ty = "Args" -> {<<>>, <<VInt(7)>>}
      [] ty = "sql::Object" -> {<<>>, <<<<<<97>>, VInt(7)>>>>}
      [] ty = "Entries" -> {<<>>, <<<<<<97>>, VInt(7)>>>>}
      [] ty = "Vec<String>" -> {<<>>, <<<<97>>>>}
      [] ty = "Range" -> {[start |-> Unbounded, end |-> Unbounded],
                          [start |-> Included(<<97>>), end |-> Excluded(<<97>>)]}

RECURSIVE ParamTuples(_)
ParamTuples(tys) ==
    IF tys = <<>> THEN {<<>>}
    ELSE {<<h>> \o t : h \in ParamInputs(Head(tys)), t \in ParamTuples(Tail(tys))}

\* what the Host backend answers
BackendOutcomes(ret) ==
    {RErr(TxtBackend)} \cup
    CASE ret = "Value" -> {ROk(VNone), ROk(VStrand(<<97>>))}
      [] ret = "COption<Value>" -> {ROk(None), ROk(Some(VInt(7)))}
      [] ret = "unit" -> {ROk(<<>>)}
      [] ret = "bool" -> {ROk(Bool(TRUE)), ROk(Bool(FALSE))}

InitImport ==
    /\ mem \in Instances
    /\ pc = "idle"
    /\ cur = Idle

\* the wrapper of an import in imports.rs, up to the call of the import
ImportCall ==
    /\ pc = "idle"
    /\ \E imp \in Imports :
       \E xs \in ParamTuples(imp.params) :
          LET r == IF imp = sr_sql /\ IsBlank(xs[1])
                   THEN Err(mem, Msg(TxtEmptySql))
                   ELSE ParamsTransfer("guest", mem, imp.params, xs)
          IN /\ mem' = r.m
             /\ cur' = [what |-> "import", imp |-> imp, args |-> xs,
                        before |-> LiveSet(mem), st |-> r.st, e |-> r.e, ptrs |-> r.x,
                        backend |-> RErr(<<>>), asked |-> FALSE, ret |-> 0,
                        why |-> "none", out |-> <<>>,
                        handle |-> [st |-> "none", x |-> 0], mid |-> mem,
                        sent |-> Len(r.m.log)]
             /\ pc' = IF r.st = "ok" THEN "calling" ELSE "done"

\* unsafe { __sr_…(ptrs) }: the import runs on the host
ImportRun ==
    /\ pc = "calling"
    /\ \E outcome \in BackendOutcomes(cur.imp.ret) :
          LET r == HostImport(mem, cur.imp, cur.ptrs, outcome)
          IN /\ mem' = r.m
             /\ cur' = [cur EXCEPT !.backend = outcome, !.asked = r.asked,
                                   !.ret = r.ret, !.why = r.why, !.st = r.st]
             /\ pc' = IF r.st = "ok" THEN "imported" ELSE "done"

\* the wrapper of an import, from the i32 the import returned
ImportReturn ==
    /\ pc = "imported"
    /\ LET r == ImportFinish("guest", mem, cur.imp, cur.ret)
       IN /\ mem' = r.m
          /\ cur' = [cur EXCEPT !.st = r.st, !.e = r.e, !.out = r.x,
                                !.handle = [st |-> TryFromI32(mem, cur.ret).st,
                                            x |-> TryFromI32(mem, cur.ret).x],
                                !.mid = mem]
          /\ pc' = "done"

NextImport ==
    \/ NewInstance
    \/ ImportCall
    \/ ImportRun
    \/ ImportReturn

SpecImport == InitImport /\ [][NextImport]_vars

\* C6: when the backend of a host import fails with message m and the host
\* hands the marshalled Result::Err(m) to the guest, the wrapper of the
\* import returns an error that carries m to the user code, never Ok.
HostFailurePropagates ==
    (/\ pc = "done"
     /\ cur.what = "import"
     /\ cur.asked
     /\ ~cur.backend.ok
     /\ cur.why = "Err"
     /\ cur.ret >= 0) =>
        /\ cur.st = "err"
        /\ cur.e = Msg(cur.backend.msg)

\* C10: the i32 a host import returns is -1 or a non-negative pointer,
\* wherever the guest allocator placed the block of the result, and it is
\* -1 only when receiving the arguments or encoding the result failed.
ImportReturnsPointerOrMinusOne ==
    (pc = "imported") =>
        /\ cur.ret = -1 \/ cur.ret >= 0
        /\ cur.ret = -1 => cur.why \in {"receive", "error", "transfer"}

\* C11: on the guest side the i32 an import returned is converted with a
\* check: r >= 0 gives a handle whose pointer is exactly r; a negative r
\* (-1 included) makes the wrapper fail with the generic message, and the
\* guest memory and its allocator are as the import left them (nothing at
\* that address was read into a result or freed).
GuestCheckedConversion ==
    (pc = "done" /\ cur.what = "import" /\ cur.handle.st # "none") =>
        /\ cur.ret >= 0 => cur.handle.st = "ok" /\ cur.handle.x = cur.ret
        /\ cur.ret < 0 =>
              /\ cur.handle.st = "err"
              /\ cur.st = "err"
              /\ cur.e = Msg(TxtNegativePtr)
              /\ cur.out = <<>>
              /\ mem = cur.mid

\* an import returned a negative i32 and the wrapper has dealt with it
GuestCheckedConversionWitness ==
    /\ pc = "done" /\ cur.what = "import" /\ cur.handle.st = "err"
    /\ cur.ret < 0

(***************************************************************************)
(* Packages: the #[surrealism] attribute macro (surrealism-macros/lib.rs)  *)
(* and the exports of the guest it builds.  A name is the sequence of its  *)
(* characters.                                                             *)
(***************************************************************************)
\* "__sr_fnc__", "__sr_args__", "__sr_returns__"
TxtFncPrefix == <<95, 95, 115, 114, 95, 102, 110, 99, 95, 95>>
TxtArgsPrefix == <<95, 95, 115, 114, 95, 97, 114, 103, 115, 95, 95>>
TxtReturnsPrefix == <<95, 95, 115, 114, 95, 114, 101, 116, 117, 114, 110, 115, 95, 95>>

\* str::starts_with
StartsWith(s, p) == Len(s) >= Len(p) /\ SubSeq(s, 1, Len(p)) = p

\* name.strip_prefix(p).unwrap_or(&name)
StripPrefix(s, p) == IF StartsWith(s, p) THEN SubSeq(s, Len(p) + 1, Len(s)) ELSE s

\* char::is_ascii_alphanumeric
IsAsciiAlphanumeric(c) == c \in (48..57) \cup (65..90) \cup (97..122)

\* val.chars().all(|c| c.is_ascii_alphanumeric() || c == '_')
AllNameChars(val) == \A i \in DOMAIN val : IsAsciiAlphanumeric(val[i]) \/ val[i] = 95

\* the arguments of the attribute: `default`, `name = "<val>"`, `name = <a
\* literal that is not a string>`, anything else
MDefault == [meta |-> "default"]
MName(val) == [meta |-> "name", lit |-> "str", val |-> val]
MNameInt == [meta |-> "name", lit |-> "int"]
MOther == [meta |-> "other"]

\* for meta in args.iter() { match meta { ... } }: the flags collected, or
\* the panic of the macro
RECURSIVE ParseMetas(_, _)
ParseMetas(metas, acc) ==
    IF metas = <<>> \/ acc.st # "ok" THEN acc
    ELSE ParseMetas(Tail(metas),
            CASE Head(metas).meta = "name" ->
                    IF Head(metas).lit # "str" THEN acc
                    ELSE IF ~AllNameChars(Head(metas).val) THEN [acc EXCEPT !.st = "panic"]
                    ELSE [acc EXCEPT !.export_name_override = Some(Head(metas).val)]
              [] Head(metas).meta = "default" -> [acc EXCEPT !.is_default = TRUE]
              [] OTHER -> [acc EXCEPT !.st = "panic"])

NoMetas == [st |-> "ok", is_default |-> FALSE, export_name_override |-> None]

\* a faulty variant of export_suffix that takes no notice of `default`
export_suffix_without_default(attr, fn_name) ==
    IF attr.export_name_override.some THEN attr.export_name_override.v
    ELSE fn_name

\* let export_suffix = if is_default { String::new() } else { ... }
export_suffix(attr, fn_name) ==
    IF attr.is_default THEN <<>>
    ELSE IF attr.export_name_override.some THEN attr.export_name_override.v
    ELSE fn_name

\* an export of a module: its name and the kind of item it is
Export(name, ty) == [name |-> name, ty |-> ty]

\* the three functions the macro generates for one annotated function
GeneratedExports(suffix) ==
    << Export(TxtFncPrefix \o suffix, "func"),
       Export(TxtArgsPrefix \o suffix, "func"),
       Export(TxtReturnsPrefix \o suffix, "func") >>

\* Args::kinds of the tuple of the parameter types (args.rs) and
\* SurrealismFunction::args (registry.rs)
kinds(sig) == [i \in DOMAIN sig |-> KindOfType(sig[i])]

\* SurrealismFunction::returns: R::kindof()
returns_kind(ret) == KindOfType(ret.of)

\* the parameter types that are both Transferrable and KindOf, which the
\* bounds of SurrealismFunction and of the Args impls ask for
ParamTypes == ArgTypes \cup TupleTypes
    \cup {"sql::Bytes", "sql::Datetime", "sql::Duration", "sql::Number",
          "sql::Object", "sql::Thing", "sql::Array"}

\* the expansion type-checks: the tuple type ( T1, .., Tn, ) is a type only
\* for n >= 1, Args is implemented for tuples of at most MaxArity elements
Compiles(fn) ==
    /\ Len(fn.sig) \in 1..MaxArity
    /\ \A i \in DOMAIN fn.sig : fn.sig[i] \in ParamTypes
    /\ fn.ret.of \in ParamTypes \cup {"()"}

\* further functions of a package: create_user of the demo, and functions
\* whose parameter lists probe the build
create_user ==
    [name |-> "create_user", sig |-> <<"(String, i64)", "bool">>, ret |-> ResultOf("String")]
no_params == [name |-> "no_params", sig |-> <<>>, ret |-> Plain("bool")]
no_return == [name |-> "no_return", sig |-> <<"((bool,), i64)", "sql::Thing">>, ret |-> Plain("()")]
opt_param == [name |-> "opt_param", sig |-> <<"Option<i64>">>, ret |-> Plain("i64")]
PackageFns == DemoFns \cup {create_user, no_params, no_return, opt_param, Nary(MaxArity),
                            Nary(MaxArity + 1)}

\* input_fn.sig.ident, abbreviated
IdentOf(fn) ==
    CASE fn.name = "can_drive" -> <<99, 95, 100>>
      [] fn.name = "safe_divide" -> <<115, 95, 100>>
      [] fn.name = "result" -> <<114>>
      [] fn.name = "js_support_agent_response_2" -> <<106, 95, 50>>
      [] fn.name = "create_user" -> <<99, 95, 117>>
      [] fn.name = "nary" -> <<110>>
      [] OTHER -> <<120, 49>>

\* what the attribute macro and the compiler make of one annotated
\* function: the panic of the macro, a compile error, or the exports
surrealism(decl) ==
    LET attr == ParseMetas(decl.metas, NoMetas)
        suffix == export_suffix(attr, IdentOf(decl.fn))
    IN IF attr.st # "ok" THEN [st |-> "panic", suffix |-> <<>>, exports |-> <<>>]
       ELSE IF ~Compiles(decl.fn) THEN [st |-> "error", suffix |-> suffix, exports |-> <<>>]
       ELSE [st |-> "ok", suffix |-> suffix, exports |-> GeneratedExports(suffix)]

\* the exports every guest has: its memory and the allocator (memory.rs)
BaseExports ==
    << Export(<<109, 101, 109>>, "memory"),
       Export(<<95, 95, 115, 114, 95, 97, 108, 108, 111, 99>>, "func"),
       Export(<<95, 95, 115, 114, 95, 102, 114, 101, 101>>, "func") >>

\* exports of #[no_mangle] items the crate of the user declares by hand
ExtraExports ==
    { <<>>,
      << Export(TxtFncPrefix \o <<103>>, "global") >>,
      << Export(SubSeq(TxtFncPrefix, 1, 9), "func"),
         Export(<<120>> \o TxtFncPrefix, "func") >>,
      << Export(TxtFncPrefix, "global"),
         Export(TxtFncPrefix \o TxtFncPrefix, "func") >> }

\* the attributes of the model: none, default, names that match
\* [A-Za-z0-9_]+, names that do not, and lists of two arguments
MetaLists ==
    { <<>>, <<MDefault>>, <<MName(<<111>>)>>, <<MName(<<65, 49, 95>>)>>,
      <<MName(<<>>)>>, <<MName(<<97, 45, 98>>)>>, <<MName(<<233>>)>>,
      <<MName(<<32>>)>>, <<MNameInt>>, <<MOther>>,
      <<MDefault, MName(<<111>>)>>, <<MName(<<111>>), MName(<<112>>)>>,
      <<MName(<<111>>), MOther>> }

Decls == [fn : PackageFns, metas : MetaLists]

\* instance.exports(..).filter_map(..): the names that start with __sr_fnc__
RECURSIVE function_names(_)
function_names(exports) ==
    IF exports = <<>> THEN <<>>
    ELSE (IF StartsWith(Head(exports).name, TxtFncPrefix)
          THEN <<Head(exports).name>> ELSE <<>>) \o function_names(Tail(exports))

\* instance.get_export(name)
get_export(exports, name) ==
    IF \E i \in DOMAIN exports : exports[i].name = name
    THEN Some(exports[CHOOSE i \in DOMAIN exports :
                        /\ exports[i].name = name
                        /\ \A j \in 1..(i - 1) : exports[j].name # name])
    ELSE None

\* for name in function_names { if let Some(export) .. ExternType::Func .. }
RECURSIVE list_loop(_, _)
list_loop(exports, names) ==
    IF names = <<>> THEN <<>>
    ELSE (IF get_export(exports, Head(names)).some
             /\ get_export(exports, Head(names)).v.ty = "func"
          THEN <<StripPrefix(Head(names), TxtFncPrefix)>> ELSE <<>>)
         \o list_loop(exports, Tail(names))

\* a faulty variant of list that does not look at the type of the export
list_any_type(exports) ==
    [i \in DOMAIN function_names(exports) |->
        StripPrefix(function_names(exports)[i], TxtFncPrefix)]

\* Controller::list (runtime controller.rs)
list(exports) == list_loop(exports, function_names(exports))

\* no two exports of a module have the same name: the linker rejects a
\* symbol defined twice
DistinctNames(exports) ==
    \A i, j \in DOMAIN exports : exports[i].name = exports[j].name => i = j

InitPackage ==
    /\ mem \in Instances
    /\ pc = "idle"
    /\ cur = Idle

\* the build of a package with one annotated function: the macro runs, the
\* expansion is compiled and linked with the rest of the crate
Build ==
    /\ pc = "idle"
    /\ \E decl \in Decls, extra \in ExtraExports :
          LET b == surrealism(decl)
              exports == BaseExports \o b.exports \o extra
              st == IF b.st = "ok" /\ ~DistinctNames(exports) THEN "error" ELSE b.st
          IN /\ cur' = [what |-> "package", decl |-> decl, extra |-> extra,
                        build |-> st, suffix |-> b.suffix,
                        exports |-> IF st = "ok" THEN exports ELSE <<>>,
                        op |-> "build", name |-> None, export |-> <<>>,
                        st |-> "ok", e |-> <<>>, out |-> <<>>]
             /\ pc' = IF st = "ok" THEN "built" ELSE "failed"
    /\ mem' = mem

\* controller.list()
HostList ==
    /\ pc = "built"
    /\ cur' = [cur EXCEPT !.op = "list", !.out = list(cur.exports)]
    /\ pc' = "done"
    /\ mem' = mem

\* SurrealismFunction::args_raw (registry.rs)
args_raw(ctl, m, sig) ==
    Try(KindsInto(ctl, m, kinds(sig)), LAMBDA ta :
    Transfer(ctl, ta.m, "TransferredArray", ta.x))

\* SurrealismFunction::returns_raw (registry.rs)
returns_raw(ctl, m, ret) == KindBoxInto(ctl, m, returns_kind(ret))

\* name.unwrap_or_default()
unwrap_or_default(name) == IF name.some THEN name.v ELSE <<>>

\* instance.get_typed_func(&mut store, &name): the export must be a function
get_typed_func(exports, name) ==
    get_export(exports, name).some /\ get_export(exports, name).v.ty = "func"

\* the failure of get_typed_func, and of a call that trapped
NoSuchExport == <<"export">>
Trapped == <<"trap">>

\* a faulty variant of ControllerArgs that decodes the kinds back to front
ControllerArgsReversed(m, exports, fn, name) ==
    IF ~get_typed_func(exports, TxtArgsPrefix \o unwrap_or_default(name))
    THEN Err(m, NoSuchExport)
    ELSE Bind(args_raw("guest", m, fn.sig), LAMBDA g :
         IF g.st # "ok" THEN Err(g.m, Trapped)
         ELSE Try(Receive("outer", g.m, "TransferredArray", g.x), LAMBDA ta :
              Try(KindsFrom("outer", ta.m, ta.x), LAMBDA ks :
              Ok(ks.m, [i \in DOMAIN ks.x |-> ks.x[Len(ks.x) + 1 - i]]))))

\* Controller::args (runtime controller.rs): the generated export
\* __sr_args__<name> runs args_raw(..).unwrap() in the guest, the host
\* receives the array and decodes its kinds
ControllerArgs(m, exports, fn, name) ==
    IF ~get_typed_func(exports, TxtArgsPrefix \o unwrap_or_default(name))
    THEN Err(m, NoSuchExport)
    ELSE Bind(args_raw("guest", m, fn.sig), LAMBDA g :
         IF g.st # "ok" THEN Err(g.m, Trapped)
         ELSE Try(Receive("outer", g.m, "TransferredArray", g.x), LAMBDA ta :
              KindsFrom("outer", ta.m, ta.x)))

\* Controller::returns (runtime controller.rs)
ControllerReturns(m, exports, fn, name) ==
    IF ~get_typed_func(exports, TxtReturnsPrefix \o unwrap_or_default(name))
    THEN Err(m, NoSuchExport)
    ELSE Bind(returns_raw("guest", m, fn.ret), LAMBDA g :
         IF g.st # "ok" THEN Err(g.m, Trapped)
         ELSE KindBoxFrom("outer", g.m, g.x))

\* Controller::invoke (runtime controller.rs): the arguments are
\* transferred before the export is looked up
ControllerInvoke(m, exports, fn, name, args) ==
    Try(transfer_args("outer", m, Repeat("sql::Value", Len(args)), args), LAMBDA a :
    IF ~get_typed_func(exports, TxtFncPrefix \o unwrap_or_default(name))
    THEN Err(a.m, NoSuchExport)
    ELSE Bind(sr_fnc(a.m, fn, a.x).res, LAMBDA g :
         IF g.st # "ok" THEN Err(g.m, Trapped)
         ELSE ReceiveValue("outer", g.m, g.x)))

\* the names the host asks for: none, the empty name, the suffix of the
\* function of the package, its identifier, and a name no export has
NameChoices ==
    {None, Some(<<>>), Some(cur.suffix), Some(IdentOf(cur.decl.fn)), Some(<<122>>)}

\* the argument lists of the calls of invoke
PackageArgs == {<<>>, <<VInt(18)>>, <<VBool(TRUE)>>, <<VInt(7), VInt(0)>>}

\* what an operation of the controller leaves behind
Answered(op, name, prefix, r) ==
    [cur EXCEPT !.op = op, !.name = name,
                !.export = prefix \o unwrap_or_default(name),
                !.st = r.st, !.e = r.e, !.out = r.x]

\* controller.args(name)
HostArgsOf ==
    /\ pc = "built"
    /\ \E name \in NameChoices :
          LET r == ControllerArgs(mem, cur.exports, cur.decl.fn, name)
          IN /\ mem' = r.m
             /\ cur' = Answered("args", name, TxtArgsPrefix, r)
    /\ pc' = "done"

\* controller.returns(name)
HostReturnsOf ==
    /\ pc = "built"
    /\ \E name \in NameChoices :
          LET r == ControllerReturns(mem, cur.exports, cur.decl.fn, name)
          IN /\ mem' = r.m
             /\ cur' = Answered("returns", name, TxtReturnsPrefix, r)
    /\ pc' = "done"

\* controller.invoke(name, args), for the functions whose bodies Call has
HostInvokeOf ==
    /\ pc = "built"
    /\ cur.decl.fn \in UserFns
    /\ \E name \in NameChoices, args \in PackageArgs :
          LET r == ControllerInvoke(mem, cur.exports, cur.decl.fn, name, args)
          IN /\ mem' = r.m
             /\ cur' = Answered("invoke", name, TxtFncPrefix, r)
    /\ pc' = "done"

NextPackage ==
    \/ NewInstance
    \/ Build
    \/ HostList
    \/ HostArgsOf
    \/ HostReturnsOf
    \/ HostInvokeOf

SpecPackage == InitPackage /\ [][NextPackage]_vars

\* C12: list() returns exactly the names left when the prefix __sr_fnc__ is
\* taken off every export whose name starts with it and that is a function:
\* no export without the prefix and none that is not a function is listed,
\* none that qualifies is left out or listed twice, and the default export
\* is listed as the empty name.
ListIsPrefixedFunctions ==
    (pc = "done" /\ cur.what = "package" /\ cur.op = "list") =>
        LET qualifies(x) == /\ x.ty = "func"
                            /\ Len(x.name) >= 10
                            /\ SubSeq(x.name, 1, 10) = TxtFncPrefix
            want == {SubSeq(cur.exports[i].name, 11, Len(cur.exports[i].name)) :
                        i \in {j \in DOMAIN cur.exports : qualifies(cur.exports[j])}}
        IN /\ {cur.out[i] : i \in DOMAIN cur.out} = want
           /\ Len(cur.out) = Cardinality(want)
           /\ (\E i \in DOMAIN cur.exports :
                  cur.exports[i] = Export(TxtFncPrefix, "func")) <=>
              (\E i \in DOMAIN cur.out : cur.out[i] = <<>>)

\* list() ran on a module that has the default export, a global whose name
\* starts with the prefix, and functions without the prefix
ListIsPrefixedFunctionsWitness ==
    /\ pc = "done" /\ cur.what = "package" /\ cur.op = "list"
    /\ cur.out = << <<>> >>
    /\ \E i \in DOMAIN cur.exports :
          cur.exports[i].ty = "global" /\ StartsWith(cur.exports[i].name, TxtFncPrefix)

TupleSigs == {create_user.sig, <<"(bool,)">>, <<"((bool,), i64)">>}

\* argument lists for create_user: the tuple as an array of two, arrays of
\* other lengths, values that are not arrays, the elements out of order,
\* and the elements spread over the list
CreateUserArgs ==
    {<<VArray(<<VStrand(str), VInt(7)>>), VBool(b)>> : str \in {<<>>, <<97>>}, b \in BOOLEAN}
    \cup {<<VArray(a), VBool(TRUE)>> :
             a \in {<<>>, <<VStrand(<<97>>)>>, <<VStrand(<<97>>), VInt(7), VInt(7)>>,
                    <<VInt(7), VStrand(<<97>>)>>, <<VStrand(<<97>>), VStrand(<<97>>)>>}}
    \cup {<<v, VBool(TRUE)>> : v \in {VNone, VNull, VStrand(<<97>>), VInt(7), VBool(TRUE)}}
    \cup {<<VArray(<<VStrand(<<97>>), VInt(7)>>), VInt(0)>>,
          <<VStrand(<<97>>), VInt(7), VBool(TRUE)>>}

TupleCalls ==
    [sig : {create_user.sig}, xs : CreateUserArgs]
    \cup [sig : {<<"(bool,)">>},
          xs : {<<VArray(<<VBool(TRUE)>>)>>, <<VBool(TRUE)>>,
                <<VArray(<<VBool(TRUE), VBool(FALSE)>>)>>, <<VArray(<<VInt(0)>>)>>}]
    \cup [sig : {<<"((bool,), i64)">>},
          xs : {<<VArray(<<VArray(<<VBool(FALSE)>>), VInt(7)>>)>>,
                <<VArray(<<VBool(FALSE), VInt(7)>>)>>,
                <<VArray(<<VArray(<<VBool(FALSE)>>), VInt(7), VInt(7)>>)>>,
                <<VArray(<<VArray(<<VBool(FALSE), VBool(TRUE)>>), VInt(7)>>)>>}]

InitTuple ==
    /\ mem \in Instances
    /\ pc = "idle"
    /\ cur = Idle

\* Controller::invoke: let args = args.transfer_args(self)?
TupleTransferArgs ==
    /\ pc = "idle"
    /\ \E c \in TupleCalls :
          LET r == transfer_args("outer", mem, Repeat("sql::Value", Len(c.xs)), c.xs)
          IN /\ mem' = r.m
             /\ cur' = Started("Tuple", "guest", c, r)
             /\ pc' = IF r.st = "ok" THEN "encoded" ELSE "failed"

\* invoke_raw: let args = A::accept_args(args, controller)?
TupleAcceptArgs ==
    /\ pc = "encoded"
    /\ cur.what = "Tuple"
    /\ LET r == accept_args(cur.ctl, mem, cur.inp.sig, cur.ptr)
       IN /\ mem' = r.m
          /\ cur' = Finished(r)
          /\ pc' = "decoded"

NextTuple ==
    \/ NewInstance
    \/ TupleTransferArgs
    \/ TupleAcceptArgs

SpecTuple == InitTuple /\ [][NextTuple]_vars

\* the value an argument of the type ty has to be, and the value a decoded
\* argument stands for
RECURSIVE Fits(_, _), FromNative(_, _)
Fits(v, ty) ==
    CASE ty = "String" -> v.t = "Strand"
      [] ty = "i64" -> v.t = "Number" /\ v.n.k = "Int"
      [] ty = "bool" -> v.t = "Bool"
      [] ty \in TupleTypes ->
            /\ v.t = "Array"
            /\ Len(v.a) = Len(TupleElems(ty))
            /\ \A i \in DOMAIN v.a : Fits(v.a[i], TupleElems(ty)[i])

FromNative(ty, x) ==
    CASE ty = "String" -> VStrand(x.str)
      [] ty = "i64" -> VInt(x.i64)
      [] ty = "bool" -> VBool(x.bool)
      [] ty \in TupleTypes -> VArray([i \in DOMAIN x |-> FromNative(TupleElems(ty)[i], x[i])])

\* Literal(Array([..])) of the tuple types, written out
TupleKind(ty) ==
    CASE ty = "(String, i64)" -> KLiteral(LArray(<<KUnit("String"), KUnit("Int")>>))
      [] ty = "(bool,)" -> KLiteral(LArray(<<KUnit("Bool")>>))
      [] ty = "((bool,), i64)" ->
            KLiteral(LArray(<<KLiteral(LArray(<<KUnit("Bool")>>)), KUnit("Int")>>))

\* C14: a parameter of a tuple type has the kind Literal(Array([..])) of
\* the kinds of its elements and is decoded from one Array value of as many
\* elements, element by element in order; an Array of another length and a
\* value that is not an Array give an UnexpectedType error.
TupleDecodesAsTuple ==
    /\ kinds(create_user.sig) = <<TupleKind("(String, i64)"), KUnit("Bool")>>
    /\ \A ty \in TupleTypes : KindOfType(ty) = TupleKind(ty)
    /\ (pc = "decoded" /\ cur.what = "Tuple" /\ Len(cur.inp.xs) = Len(cur.inp.sig)) =>
          LET xs == cur.inp.xs
              sig == cur.inp.sig
              n == Len(TupleElems(sig[1]))
          IN /\ cur.st \in {"ok", "err"}
             /\ cur.st = "ok" <=> \A i \in DOMAIN sig : Fits(xs[i], sig[i])
             /\ cur.st = "ok" =>
                   /\ Len(cur.out[1]) = n
                   /\ \A i \in DOMAIN sig : FromNative(sig[i], cur.out[i]) = xs[i]
             /\ xs[1].t # "Array" =>
                   /\ cur.st = "err"
                   /\ cur.e = UnexpectedType(cur.e[2], KArray(KUnit("Any"), None))
             /\ (xs[1].t = "Array" /\ Len(xs[1].a) # n) =>
                   /\ cur.st = "err"
                   /\ cur.e = UnexpectedType(KArray(KUnit("Any"), Some(Len(xs[1].a))),
                                             TupleKind(sig[1]))

\* the guest was handed an array of three elements for a tuple of two
TupleDecodesAsTupleWitness ==
    /\ pc = "decoded" /\ cur.what = "Tuple" /\ cur.inp.sig = create_user.sig
    /\ Len(cur.inp.xs) = 2
    /\ cur.inp.xs[1].t = "Array" /\ Len(cur.inp.xs[1].a) = 3
    /\ cur.st = "err"

\* a value of [A-Za-z0-9_]+, character by character
MatchesNamePattern(val) ==
    /\ Len(val) >= 1
    /\ \A i \in DOMAIN val :
          \/ val[i] \in 48..57
          \/ val[i] \in 65..90
          \/ val[i] \in 97..122
          \/ val[i] = 95

\* C15: the build rejects every name = "..." whose value does not match
\* [A-Za-z0-9_]+, the empty string included, and generates no export for
\* it; it accepts every value that matches.
BuildRejectsOtherNames ==
    (cur.what = "package" /\ cur.op = "build") =>
       \A i \in DOMAIN cur.decl.metas :
          LET mt == cur.decl.metas[i]
          IN (mt.meta = "name" /\ mt.lit = "str") =>
                /\ ~MatchesNamePattern(mt.val) =>
                      /\ cur.build # "ok"
                      /\ cur.exports = <<>>
                /\ (MatchesNamePattern(mt.val) /\ cur.decl.metas = <<mt>>) =>
                      surrealism(cur.decl).st # "panic"

\* a function export of the given name
HasFunction(exports, name) ==
    \E i \in DOMAIN exports : exports[i] = Export(name, "func")

\* all three exports of the annotated function are there under the suffix
\* sfx, and no other export has the prefix of args or of returns
ExportedUnder(exports, sfx) ==
    /\ HasFunction(exports, TxtFncPrefix \o sfx)
    /\ HasFunction(exports, TxtArgsPrefix \o sfx)
    /\ HasFunction(exports, TxtReturnsPrefix \o sfx)
    /\ \A i \in DOMAIN exports :
          /\ (Len(exports[i].name) >= 11 /\ SubSeq(exports[i].name, 1, 11) = TxtArgsPrefix)
                => exports[i].name = TxtArgsPrefix \o sfx
          /\ (Len(exports[i].name) >= 14 /\ SubSeq(exports[i].name, 1, 14) = TxtReturnsPrefix)
                => exports[i].name = TxtReturnsPrefix \o sfx

\* the prefix an operation of the host puts before the name
PrefixOfOp(op) ==
    CASE op = "args" -> TxtArgsPrefix
      [] op = "returns" -> TxtReturnsPrefix
      [] op = "invoke" -> TxtFncPrefix

\* C16: the three exports of an annotated function carry one suffix: the
\* identifier of the function for no attribute arguments, the value for
\* name = "...", the empty suffix for default; args, returns and invoke
\* with the name omitted address exactly the exports of the empty suffix.
ExportsShareSuffix ==
    (cur.what = "package" /\ cur.build = "ok") =>
       LET metas == cur.decl.metas
           ident == IdentOf(cur.decl.fn)
           vals == {metas[i].val : i \in {j \in DOMAIN metas :
                                            metas[j].meta = "name" /\ metas[j].lit = "str"}}
       IN /\ \E sfx \in {<<>>, ident} \cup vals : ExportedUnder(cur.exports, sfx)
          /\ metas = <<>> => ExportedUnder(cur.exports, ident)
          /\ metas = <<MDefault>> => ExportedUnder(cur.exports, <<>>)
          /\ \A v \in vals : metas = <<MName(v)>> => ExportedUnder(cur.exports, v)
          /\ (cur.op \in {"args", "returns", "invoke"} /\ ~cur.name.some) =>
                /\ cur.export = PrefixOfOp(cur.op)
                /\ (cur.st = "err" /\ cur.e = NoSuchExport)
                      => ~HasFunction(cur.exports, PrefixOfOp(cur.op))
                /\ ~HasFunction(cur.exports, PrefixOfOp(cur.op)) => cur.st # "ok"
                /\ ~ExportedUnder(cur.exports, <<>>) =>
                      /\ cur.st # "ok"
                      /\ cur.op # "invoke" => (cur.st = "err" /\ cur.e = NoSuchExport)
                /\ (cur.st = "ok" /\ cur.op = "args") => cur.out = kinds(cur.decl.fn.sig)

\* the kinds of the function exported as default were returned for the
\* omitted name
ExportsShareSuffixWitness ==
    /\ pc = "done" /\ cur.what = "package" /\ cur.build = "ok"
    /\ cur.decl.metas = <<MDefault>>
    /\ cur.op = "args" /\ ~cur.name.some
    /\ cur.st = "ok" /\ Len(cur.out) = 2

(***************************************************************************)
(* The in-memory key-value store of the host (runtime kv.rs).  A BTreeMap  *)
(* is the sequence of its entries in ascending order of the keys.          *)
(***************************************************************************)
\* Ord for str: the bytes compared from the left, a proper prefix first
RECURSIVE StrLt(_, _)
StrLt(a, b) ==
    IF b = <<>> THEN FALSE
    ELSE IF a = <<>> THEN TRUE
    ELSE IF a[1] # b[1] THEN a[1] < b[1]
    ELSE StrLt(Tail(a), Tail(b))

StrLe(a, b) == a = b \/ StrLt(a, b)

Entry(key, value) == [key |-> key, value |-> value]

\* BTreeMap::get and BTreeMap::contains_key
contains_key(map, key) == \E i \in DOMAIN map : map[i].key = key

map_get(map, key) ==
    IF contains_key(map, key)
    THEN Some(map[CHOOSE i \in DOMAIN map : map[i].key = key].value)
    ELSE None

\* a faulty variant of insert that keeps the value of a key that is present
RECURSIVE insert_if_absent(_, _, _)
insert_if_absent(map, key, value) ==
    IF map = <<>> THEN <<Entry(key, value)>>
    ELSE IF Head(map).key = key THEN map
    ELSE IF StrLt(key, Head(map).key) THEN <<Entry(key, value)>> \o map
    ELSE <<Head(map)>> \o insert_if_absent(Tail(map), key, value)

\* BTreeMap::insert: the value of a key that is present is replaced
RECURSIVE insert(_, _, _)
insert(map, key, value) ==
    IF map = <<>> THEN <<Entry(key, value)>>
    ELSE IF Head(map).key = key THEN <<Entry(key, value)>> \o Tail(map)
    ELSE IF StrLt(key, Head(map).key) THEN <<Entry(key, value)>> \o map
    ELSE <<Head(map)>> \o insert(Tail(map), key, value)

\* BTreeMap::remove
remove(map, key) == SelectSeq(map, LAMBDA e : e.key # key)

\* BTreeMapStore::new
new == <<>>

\* a faulty variant of in_range that takes an included end as excluded
in_range_open_end(key, start, end) ==
    /\ CASE start.bound = "Included" -> ~StrLt(key, start.v)
         [] start.bound = "Excluded" -> ~StrLe(key, start.v)
         [] start.bound = "Unbounded" -> TRUE
    /\ CASE end.bound = "Included" -> ~StrLe(end.v, key)
         [] end.bound = "Excluded" -> ~StrLe(end.v, key)
         [] end.bound = "Unbounded" -> TRUE

\* BTreeMapStore::in_range
in_range(key, start, end) ==
    /\ CASE start.bound = "Included" -> ~StrLt(key, start.v)
         [] start.bound = "Excluded" -> ~StrLe(key, start.v)
         [] start.bound = "Unbounded" -> TRUE
    /\ CASE end.bound = "Included" -> ~StrLt(end.v, key)
         [] end.bound = "Excluded" -> ~StrLe(end.v, key)
         [] end.bound = "Unbounded" -> TRUE

\* impl KVStore for BTreeMapStore: the store after the operation, or the
\* value the operation returns
get(map, key) == map_get(map, key)
set(map, key, value) == insert(map, key, value)
del(map, key) == remove(map, key)
exists(map, key) == contains_key(map, key)

\* keys_to_remove are collected first and removed one by one
RECURSIVE remove_all(_, _)
remove_all(map, ks) ==
    IF ks = <<>> THEN map ELSE remove_all(remove(map, Head(ks)), Tail(ks))

map_keys(map) == [i \in DOMAIN map |-> map[i].key]

del_rng(map, start, end) ==
    remove_all(map, SelectSeq(map_keys(map), LAMBDA key : in_range(key, start, end)))

get_batch(map, ks) == [i \in DOMAIN ks |-> map_get(map, ks[i])]

RECURSIVE set_batch(_, _)
set_batch(map, es) ==
    IF es = <<>> THEN map
    ELSE set_batch(insert(map, Head(es)[1], Head(es)[2]), Tail(es))

del_batch(map, ks) == remove_all(map, ks)

keys(map, start, end) ==
    SelectSeq(map_keys(map), LAMBDA key : in_range(key, start, end))

\* a faulty variant of values that takes no notice of the range
values_all(map, start, end) == [i \in DOMAIN map |-> map[i].value]

values(map, start, end) ==
    Bind(SelectSeq(map, LAMBDA e : in_range(e.key, start, end)), LAMBDA sel :
    [i \in DOMAIN sel |-> sel[i].value])

entries(map, start, end) ==
    Bind(SelectSeq(map, LAMBDA e : in_range(e.key, start, end)), LAMBDA sel :
    [i \in DOMAIN sel |-> <<sel[i].key, sel[i].value>>])

count(map, start, end) ==
    Len(SelectSeq(map_keys(map), LAMBDA key : in_range(key, start, end)))

\* the keys, values, batches and ranges of the model
KvKeys == {<<>>, <<97>>, <<97, 97>>, <<98>>, <<195, 169>>}
KvValues == {VInt(7), VStrand(<<97>>)}
KvBounds == {Unbounded} \cup {Included(k) : k \in KvKeys} \cup {Excluded(k) : k \in KvKeys}
KvKeyLists == {<<>>, <<<<97>>>>, <<<<98>>, <<>>>>, <<<<97>>, <<97>>>>,
               <<<<97, 97>>, <<195, 169>>, <<98>>>>}
KvEntryLists == {<<>>, <<<<<<98>>, VInt(7)>>>>,
                 <<<<<<97>>, VInt(7)>>, <<<<97>>, VStrand(<<97>>)>>>>,
                 <<<<<<195, 169>>, VInt(7)>>, <<<<>>, VStrand(<<97>>)>>, <<<<97, 97>>, VInt(7)>>>>}

\* the reference map: what the latest set or delete of each key left
RefSet(ref, key, value) == [ref EXCEPT ![key] = Some(value)]
RefDel(ref, key) == [ref EXCEPT ![key] = None]

RECURSIVE RefSetAll(_, _), RefDelAll(_, _)
RefSetAll(ref, es) ==
    IF es = <<>> THEN ref
    ELSE RefSetAll(RefSet(ref, Head(es)[1], Head(es)[2]), Tail(es))

RefDelAll(ref, ks) ==
    IF ks = <<>> THEN ref ELSE RefDelAll(RefDel(ref, Head(ks)), Tail(ks))

\* the standard meaning of a pair of bounds
AboveStart(k, start) ==
    \/ start.bound = "Unbounded"
    \/ start.bound = "Included" /\ StrLe(start.v, k)
    \/ start.bound = "Excluded" /\ StrLt(start.v, k)

BelowEnd(k, end) ==
    \/ end.bound = "Unbounded"
    \/ end.bound = "Included" /\ StrLe(k, end.v)
    \/ end.bound = "Excluded" /\ StrLt(k, end.v)

Selected(k, start, end) == AboveStart(k, start) /\ BelowEnd(k, end)

RefDelRng(ref, start, end) ==
    [k \in KvKeys |-> IF Selected(k, start, end) THEN None ELSE ref[k]]

NoArgs == [key |-> <<>>]

\* the store together with the last operation: its arguments, the store
\* before it and what it returned
KvState(store, ref, before, op, arg, out) ==
    [what |-> "kv", store |-> store, ref |-> ref, before |-> before,
     op |-> op, arg |-> arg, st |-> "ok", out |-> out]

InitKV ==
    /\ mem = NewMem(0, FALSE)
    /\ pc = "ready"
    /\ cur = KvState(new, [k \in KvKeys |-> None], new, "new", NoArgs, <<>>)

\* an operation that writes: the store and the reference map move on
KvWrote(op, arg, store, ref) ==
    /\ cur' = KvState(store, ref, cur.store, op, arg, <<>>)
    /\ pc' = "answered"
    /\ mem' = mem

\* an operation that reads
KvRead(op, arg, out) ==
    /\ cur' = KvState(cur.store, cur.ref, cur.store, op, arg, out)
    /\ pc' = "answered"
    /\ mem' = mem

KvGet ==
    /\ pc = "ready"
    /\ \E key \in KvKeys : KvRead("get", [key |-> key], get(cur.store, key))

KvSet ==
    /\ pc = "ready"
    /\ \E key \in KvKeys, value \in KvValues :
          KvWrote("set", [key |-> key, value |-> value],
                  set(cur.store, key, value), RefSet(cur.ref, key, value))

KvDel ==
    /\ pc = "ready"
    /\ \E key \in KvKeys :
          KvWrote("del", [key |-> key], del(cur.store, key), RefDel(cur.ref, key))

KvExists ==
    /\ pc = "ready"
    /\ \E key \in KvKeys : KvRead("exists", [key |-> key], exists(cur.store, key))

KvDelRng ==
    /\ pc = "ready"
    /\ \E start \in KvBounds, end \in KvBounds :
          KvWrote("del_rng", [start |-> start, end |-> end],
                  del_rng(cur.store, start, end), RefDelRng(cur.ref, start, end))

KvGetBatch ==
    /\ pc = "ready"
    /\ \E ks \in KvKeyLists : KvRead("get_batch", [keys |-> ks], get_batch(cur.store, ks))

KvSetBatch ==
    /\ pc = "ready"
    /\ \E es \in KvEntryLists :
          KvWrote("set_batch", [entries |-> es],
                  set_batch(cur.store, es), RefSetAll(cur.ref, es))

KvDelBatch ==
    /\ pc = "ready"
    /\ \E ks \in KvKeyLists :
          KvWrote("del_batch", [keys |-> ks],
                  del_batch(cur.store, ks), RefDelAll(cur.ref, ks))

KvKeysOf ==
    /\ pc = "ready"
    /\ \E start \in KvBounds, end \in KvBounds :
          KvRead("keys", [start |-> start, end |-> end], keys(cur.store, start, end))

KvValuesOf ==
    /\ pc = "ready"
    /\ \E start \in KvBounds, end \in KvBounds :
          KvRead("values", [start |-> start, end |-> end], values(cur.store, start, end))

KvEntriesOf ==
    /\ pc = "ready"
    /\ \E start \in KvBounds, end \in KvBounds :
          KvRead("entries", [start |-> start, end |-> end], entries(cur.store, start, end))

KvCount ==
    /\ pc = "ready"
    /\ \E start \in KvBounds, end \in KvBounds :
          KvRead("count", [start |-> start, end |-> end], count(cur.store, start, end))

\* the operation has returned to its caller
KvReturn ==
    /\ pc = "answered"
    /\ cur' = KvState(cur.store, cur.ref, cur.store, "none", NoArgs, <<>>)
    /\ pc' = "ready"
    /\ mem' = mem

NextKV ==
    \/ KvGet
    \/ KvSet
    \/ KvDel
    \/ KvExists
    \/ KvDelRng
    \/ KvGetBatch
    \/ KvSetBatch
    \/ KvDelBatch
    \/ KvKeysOf
    \/ KvValuesOf
    \/ KvEntriesOf
    \/ KvCount
    \/ KvReturn

SpecKV == InitKV /\ [][NextKV]_vars

\* the keys of a list of entries
EntryKeys(es) == {es[i][1] : i \in DOMAIN es}

SeqRange(s) == {s[i] : i \in DOMAIN s}

\* C17: after any sequence of set, del, set_batch, del_batch and del_rng
\* the store answers like the reference map: get(k) is the value of the
\* latest set of k that no later delete covered, exists(k) is true exactly
\* when get(k) is Some, an operation leaves the keys it does not name as
\* they were, and del of an absent key succeeds and changes nothing.
KvIsReferenceMap ==
    cur.what = "kv" =>
       /\ \A i \in DOMAIN cur.store : cur.store[i].key \in KvKeys
       /\ \A k \in KvKeys :
             /\ get(cur.store, k) = cur.ref[k]
             /\ exists(cur.store, k) <=> get(cur.store, k).some
       /\ cur.st = "ok"
       /\ cur.op = "get" => cur.out = cur.ref[cur.arg.key]
       /\ cur.op = "exists" => cur.out = cur.ref[cur.arg.key].some
       /\ cur.op = "set" =>
             /\ get(cur.store, cur.arg.key) = Some(cur.arg.value)
             /\ \A k \in KvKeys \ {cur.arg.key} : get(cur.store, k) = get(cur.before, k)
       /\ cur.op = "del" =>
             /\ get(cur.store, cur.arg.key) = None
             /\ \A k \in KvKeys \ {cur.arg.key} : get(cur.store, k) = get(cur.before, k)
             /\ ~exists(cur.before, cur.arg.key) => cur.store = cur.before
       /\ cur.op = "set_batch" =>
             \A k \in KvKeys \ EntryKeys(cur.arg.entries) :
                get(cur.store, k) = get(cur.before, k)
       /\ cur.op = "del_batch" =>
             \A k \in KvKeys :
                get(cur.store, k) = IF k \in SeqRange(cur.arg.keys) THEN None
                                    ELSE get(cur.before, k)
       /\ cur.op \in {"get", "exists", "get_batch", "keys", "values", "entries", "count"} =>
             cur.store = cur.before

\* a del of a key that is absent from a store that holds other keys
KvIsReferenceMapWitness ==
    /\ pc = "answered" /\ cur.what = "kv" /\ cur.op = "del"
    /\ ~exists(cur.before, cur.arg.key)
    /\ Len(cur.before) >= 2
    /\ cur.store = cur.before

\* the stored keys a pair of bounds selects
SelectedKeys(map, start, end) ==
    {k \in KvKeys : get(map, k).some /\ Selected(k, start, end)}

\* C18: keys, values, entries, count and del_rng select exactly the stored
\* keys within the bounds (Included: <=, Excluded: <, Unbounded: no limit);
\* a range whose start lies above its end selects nothing and does not
\* fail; del_rng removes the selected keys and no others.
KvRangesFollowBounds ==
    (cur.what = "kv" /\ cur.op \in {"keys", "values", "entries", "count", "del_rng"}) =>
       LET start == cur.arg.start
           end == cur.arg.end
           sel == SelectedKeys(cur.before, start, end)
           reversed == /\ start.bound # "Unbounded"
                       /\ end.bound # "Unbounded"
                       /\ StrLt(end.v, start.v)
       IN /\ cur.st = "ok"
          /\ reversed => sel = {}
          /\ cur.op = "keys" =>
                /\ SeqRange(cur.out) = sel
                /\ Len(cur.out) = Cardinality(sel)
          /\ cur.op = "values" =>
                /\ Len(cur.out) = Cardinality(sel)
                /\ \E f \in [DOMAIN cur.out -> sel] :
                      /\ \A i, j \in DOMAIN cur.out : f[i] = f[j] => i = j
                      /\ \A i \in DOMAIN cur.out : cur.out[i] = get(cur.before, f[i]).v
          /\ cur.op = "entries" =>
                /\ SeqRange(cur.out) = {<<k, get(cur.before, k).v>> : k \in sel}
                /\ Len(cur.out) = Cardinality(sel)
          /\ cur.op = "count" => cur.out = Cardinality(sel)
          /\ cur.op = "del_rng" =>
                \A k \in KvKeys :
                   get(cur.store, k) = IF k \in sel THEN None ELSE get(cur.before, k)

\* del_rng over (start, end] removed one key and kept the keys on both sides
KvRangesFollowBoundsWitness ==
    /\ pc = "answered" /\ cur.what = "kv" /\ cur.op = "del_rng"
    /\ cur.arg.start.bound = "Excluded" /\ cur.arg.end.bound = "Included"
    /\ exists(cur.before, cur.arg.start.v) /\ exists(cur.store, cur.arg.start.v)
    /\ exists(cur.before, cur.arg.end.v) /\ ~exists(cur.store, cur.arg.end.v)
    /\ Len(cur.store) = 2 /\ Len(cur.before) = 3

\* C19: keys, values and entries of a range are in strictly ascending order
\* of the keys and aligned with each other, and count is the length of
\* entries.
KvScansAscendingAligned ==
    (cur.what = "kv" /\ cur.op \in {"keys", "values", "entries", "count"}) =>
       LET ks == keys(cur.store, cur.arg.start, cur.arg.end)
           vs == values(cur.store, cur.arg.start, cur.arg.end)
           es == entries(cur.store, cur.arg.start, cur.arg.end)
           n == count(cur.store, cur.arg.start, cur.arg.end)
       IN /\ cur.out = CASE cur.op = "keys" -> ks
                         [] cur.op = "values" -> vs
                         [] cur.op = "entries" -> es
                         [] cur.op = "count" -> n
          /\ \A i, j \in DOMAIN ks : i < j => StrLt(ks[i], ks[j])
          /\ \A i, j \in DOMAIN es : i < j => StrLt(es[i][1], es[j][1])
          /\ Len(ks) = Len(es) /\ Len(vs) = Len(es) /\ n = Len(es)
          /\ \A i \in DOMAIN es : es[i] = <<ks[i], vs[i]>>
          /\ \A i \in DOMAIN vs : vs[i] = get(cur.store, ks[i]).v

\* entries of a proper part of a store, with keys of which one is a prefix
\* of the other
KvScansAscendingAlignedWitness ==
    /\ pc = "answered" /\ cur.what = "kv" /\ cur.op = "entries"
    /\ Len(cur.out) = 2 /\ Len(cur.store) = 4
    /\ cur.out[1][1] = <<97>> /\ cur.out[2][1] = <<97, 97>>
    /\ cur.out[1][2] # cur.out[2][2]

(***************************************************************************)
(* Datetime values that arrive in wire form: the fields secs (i64) and     *)
(* nanos (u32) are whatever the other side wrote.                          *)
(***************************************************************************)
\* the largest seconds and nanos of the model, both beyond what a calendar
\* date holds
SecsTop == 2 ^ 30
NanosTop == 2 * NanosPerSec + 5

WireSecs == {-SecsTop, -TimestampMax - 1, -TimestampMax, -1, 0, 59, 60,
             TimestampMax, TimestampMax + 1, SecsTop}
WireNanos == {0, 5, NanosPerSec - 1, NanosPerSec, NanosPerSec + 5,
              2 * NanosPerSec - 1, 2 * NanosPerSec, NanosTop}
WireDatetimes == [secs : WireSecs, nanos : WireNanos]

InitDatetime ==
    /\ mem \in Instances
    /\ pc = "idle"
    /\ cur = Idle

\* sql::Value::from_transferrable of a SR_VALUE_DATETIME
DatetimeDecode ==
    /\ pc = "idle"
    /\ \E ctl \in Controllers, w \in WireDatetimes :
          LET r == ValueFrom(ctl, mem, WDatetime(w))
          IN /\ mem' = r.m
             /\ cur' = [what |-> "Datetime", ctl |-> ctl, inp |-> w,
                        st |-> r.st, e |-> r.e, out |-> r.x, back |-> <<>>]
             /\ pc' = IF r.st = "ok" THEN "decoded" ELSE "failed"

\* the decoded value goes back into wire form
DatetimeEncode ==
    /\ pc = "decoded"
    /\ cur.what = "Datetime"
    /\ LET r == ValueInto(cur.ctl, mem, cur.out)
       IN /\ mem' = r.m
          /\ cur' = [cur EXCEPT !.back = r.x]
          /\ pc' = "done"

NextDatetime ==
    \/ NewInstance
    \/ DatetimeDecode
    \/ DatetimeEncode

SpecDatetime == InitDatetime /\ [][NextDatetime]_vars

\* C20: a Datetime that decoding accepts has 0 <= nanos < 10^9 and seconds
\* of a real instant; every other pair (secs, nanos) is rejected with
\* InvalidDatetime and nothing panics; (0, 0) is accepted and encodes back
\* to (0, 0).
DecodedDatetimeIsInstant ==
    cur.what = "Datetime" =>
       /\ cur.st \in {"ok", "err"}
       /\ cur.st = "ok" =>
             /\ cur.out = VDatetime(cur.inp)
             /\ cur.inp.nanos >= 0 /\ cur.inp.nanos < NanosPerSec
             /\ cur.inp.secs >= -TimestampMax /\ cur.inp.secs <= TimestampMax
       /\ cur.st = "err" => cur.e = <<"InvalidDatetime">>
       /\ (\/ cur.inp.nanos >= NanosPerSec
           \/ cur.inp.secs > TimestampMax
           \/ cur.inp.secs < -TimestampMax) => cur.st = "err"
       /\ cur.inp = [secs |-> 0, nanos |-> 0] =>
             /\ cur.st = "ok"
             /\ pc = "done" => cur.back = WDatetime(cur.inp)

(***************************************************************************)
(* The order of the calls inside one invocation.  An export of the guest   *)
(* is called by Controller::invoke (&mut self); the wrappers of the guest  *)
(* call host imports, which wasmtime runs as plain synchronous functions   *)
(* (Linker::func_wrap) on the stack of the guest; inside an import the     *)
(* host calls the allocator exports of the guest.  frames is that stack,   *)
(* trace the steps taken, seen the calls that reached the backend.         *)
(***************************************************************************)
OrderImports == {sr_kv_set, sr_kv_get, sr_sql}

\* the imports the invoked function calls, in the order of its code
Programs == UNION {[1..n -> OrderImports] : n \in 0..MaxLen}

Ev(by, ev, imp) == [by |-> by, ev |-> ev, imp |-> imp]

NoInvocation ==
    [what |-> "order", active |-> 0, n |-> 0, program |-> <<>>, next |-> 1,
     frames |-> <<>>, phase |-> "none", trace |-> <<>>, seen |-> <<>>]

InitOrder ==
    /\ mem = NewMem(0, FALSE)
    /\ pc = "idle"
    /\ cur = NoInvocation

\* a faulty variant of CanInvoke: the controller is shared, not borrowed
CanInvokeShared(c) == TRUE

\* invoke(&mut self, ..): the caller holds the only reference to the
\* controller, so no invocation of it is under way
CanInvoke(c) == c.active = 0

\* Controller::invoke: invoke.call(&mut self.store, (args.ptr(),))
OrderInvoke ==
    /\ CanInvoke(cur)
    /\ cur.n < MaxOps
    /\ \E program \in Programs :
          cur' = [cur EXCEPT !.active = @ + 1, !.n = @ + 1, !.program = program,
                             !.next = 1, !.frames = <<"export">>, !.phase = "none",
                             !.trace = <<>>, !.seen = <<>>]
    /\ pc' = "guest"
    /\ mem' = mem

\* the function of the guest computes between two calls
OrderGuestStep ==
    /\ pc = "guest"
    /\ IF cur.trace = <<>> THEN TRUE
       ELSE cur.trace[Len(cur.trace)] # Ev("guest", "step", "none")
    /\ cur' = [cur EXCEPT !.trace = Append(@, Ev("guest", "step", "none"))]
    /\ pc' = pc
    /\ mem' = mem

\* a wrapper of imports.rs: unsafe { __sr_..(ptr, ..) }
OrderCallImport ==
    /\ pc = "guest"
    /\ cur.next <= Len(cur.program)
    /\ cur' = [cur EXCEPT !.frames = Append(@, "import"), !.phase = "entered",
                          !.next = @ + 1,
                          !.trace = Append(@, Ev("guest", "call", cur.program[cur.next].name))]
    /\ pc' = "host"
    /\ mem' = mem

\* register_host_function!: the arguments are received; every receive
\* calls the export __sr_free of the guest
OrderImportReceive ==
    /\ pc = "host"
    /\ cur.phase = "entered"
    /\ cur' = [cur EXCEPT !.phase = "received",
                          !.trace = Append(@, Ev("host", "__sr_free",
                                                 cur.program[cur.next - 1].name))]
    /\ pc' = pc
    /\ mem' = mem

\* the body of the import: controller.host()...: the backend is called
OrderImportBody ==
    /\ pc = "host"
    /\ cur.phase = "received"
    /\ cur' = [cur EXCEPT !.phase = "ran",
                          !.seen = Append(@, cur.program[cur.next - 1]),
                          !.trace = Append(@, Ev("host", "backend",
                                                 cur.program[cur.next - 1].name))]
    /\ pc' = pc
    /\ mem' = mem

\* CResult::transfer(result, ..).ptr() as i32: the result is written to a
\* block of __sr_alloc and the import returns to the wrapper
OrderImportReturn ==
    /\ pc = "host"
    /\ cur.phase = "ran"
    /\ cur' = [cur EXCEPT !.phase = "none",
                          !.frames = SubSeq(@, 1, Len(@) - 1),
                          !.trace = @ \o <<Ev("host", "__sr_alloc", cur.program[cur.next - 1].name),
                                           Ev("host", "ret", cur.program[cur.next - 1].name)>>]
    /\ pc' = "guest"
    /\ mem' = mem

\* the export returns, invoke receives the value and gives the controller
\* back
OrderReturn ==
    /\ pc = "guest"
    /\ cur.next > Len(cur.program)
    /\ cur' = [cur EXCEPT !.frames = <<>>, !.active = @ - 1]
    /\ pc' = "idle"
    /\ mem' = mem

\* the controller is dropped and a new one is made from the package
OrderReset ==
    /\ pc = "idle"
    /\ cur.n = MaxOps
    /\ cur' = NoInvocation
    /\ pc' = pc
    /\ mem' = mem

NextOrder ==
    \/ OrderInvoke
    \/ OrderGuestStep
    \/ OrderCallImport
    \/ OrderImportReceive
    \/ OrderImportBody
    \/ OrderImportReturn
    \/ OrderReturn
    \/ OrderReset

SpecOrder == InitOrder /\ [][NextOrder]_vars

\* the calls the trace holds, and the calls of the backend it holds
CallsOf(trace) == SelectSeq(trace, LAMBDA ev : ev.ev = "call")
BackendOf(trace) == SelectSeq(trace, LAMBDA ev : ev.ev = "backend")

DecodeFreesOuterLast ==
    (pc = "decoded" /\ cur.what = "Value" /\ cur.st = "ok") =>
       \A i \in FreesOf(mem) : mem.log[i].ptr = cur.ptr =>
          \A j \in FreesOf(mem) : j <= i

\* C23: a decode that fails (an argument array or a tuple of the wrong
\* length, an element of the wrong type) has still freed every block it
\* read and the blocks of the elements it did not convert: no block of the
\* encoded value is left outstanding.
FailedDecodeFreesAll ==
    (pc = "decoded" /\ cur.what = "Tuple" /\ cur.st = "err") =>
       /\ LiveSet(mem) = cur.before
       /\ \A i \in AllocsOf(mem) : FreesOfBlock(mem, i) # {}

\* the allocations the guest wrapper made for the arguments of the import,
\* and those the import made
ArgAllocs == {i \in AllocsOf(mem) : i <= cur.sent}
HostAllocs == {i \in AllocsOf(mem) : i > cur.sent}

\* C24: when a host import returns a non-negative pointer, every block the
\* guest allocated for the arguments has been freed exactly once and the
\* only new live blocks are those of the encoded Result; once the wrapper
\* has consumed the Result, Ok or Err, the outstanding blocks are those of
\* before the call.
ImportFreesArguments ==
    (cur.what = "import" /\ pc \in {"imported", "done"} /\ cur.why \in {"Ok", "Err"}
                         /\ cur.ret >= 0) =>
       /\ pc = "imported" =>
             /\ \A i \in ArgAllocs : Cardinality(FreesOfBlock(mem, i)) = 1
             /\ LiveSet(mem) \ cur.before \subseteq {mem.log[i].ptr : i \in HostAllocs}
             /\ ~mem.ub
       /\ (pc = "done" /\ cur.handle.st = "ok") => LiveSet(mem) = cur.before

\* an encode that stopped although the value has a wire form: the only other
\* way an encode stops is an allocation the guest refused with -1
AllocRefused ==
    /\ pc = "failed"
    /\ cur.what \in {"Value", "Kind", "Args"}
    /\ cur.e # <<"UnsupportedKind">>

\* C25: when __sr_alloc of the guest returns -1, the host-side controller
\* in use (the outer Controller, the HostController) returns an error from
\* alloc, the encode is given up with that error, and -1 (the all-ones
\* word) is never used as the offset of a block.
AllocRefusalIsError ==
    (AllocRefused /\ cur.ctl \in {"host", "outer"}) =>
       /\ cur.st = "err"
       /\ cur.e = Msg(TxtAllocFailed)
       /\ \A i \in DOMAIN mem.log : mem.log[i].ptr # U32Max


\* C26: sql and sql_with_vars refuse a query that holds nothing but white
\* space: the call ends with the error "SQL query cannot be empty", no block
\* was allocated (the guest memory is the one before the call) and the
\* backend was not asked.
BlankSqlIsRejectedUntouched ==
    (/\ pc # "idle"
     /\ cur.what = "import"
     /\ cur.imp = sr_sql
     /\ \A i \in DOMAIN cur.args[1] : cur.args[1][i] \in {9, 10, 11, 12, 13, 32}) =>
       /\ pc = "done"
       /\ cur.st = "err"
       /\ cur.e = Msg(TxtEmptySql)
       /\ mem = cur.mid
       /\ LiveSet(mem) = cur.before
       /\ ~cur.asked
       /\ cur.ptrs = <<>>

BlankSqlIsRejectedUntouchedWitness ==
    /\ pc = "done"
    /\ cur.what = "import"
    /\ cur.imp = sr_sql
    /\ cur.args[1] = <<10, 32>>
    /\ cur.st = "err"
    /\ mem.log = <<>>


\* the allocation a free answers: the last alloc of the same offset before it
AllocOfFree(m, i) ==
    {j \in AllocsOf(m) :
        /\ j < i
        /\ m.log[j].ptr = m.log[i].ptr
        /\ \A k \in AllocsOf(m) : (k < i /\ m.log[k].ptr = m.log[i].ptr) => k <= j}

\* C27: every block is deallocated with the layout it was allocated with:
\* the free of a block names the size and the alignment of its allocation.
FreeUsesAllocLayout ==
    \A i \in FreesOf(mem) :
       \A j \in AllocOfFree(mem, i) :
          /\ mem.log[i].len = mem.log[j].len
          /\ mem.log[i].align = mem.log[j].align


\* the frees of the block allocated by event i, up to the next allocation
\* of the same offset
FreesOfAlloc(m, i) ==
    {j \in FreesOf(m) : i \in AllocOfFree(m, j)}

WideLens(ty) == {U32Mod \div SizeOf(ty), U32Mod \div SizeOf(ty) + 1}

DeclaredLens(ty, n) == {n} \cup WideLens(ty)

\* the events a decode added to the log
EventsSince(m, n) == {i \in DOMAIN m.log : i > n}

InitArray ==
    /\ mem \in Instances
    /\ pc = "idle"
    /\ cur = Idle

\* strs.into_transferrable(controller)
ArrayEncode ==
    /\ pc = "idle"
    /\ \E ctl \in Controllers, strs \in SeqsUpTo(Strs, MaxLen) :
          LET r == StrandsInto(ctl, mem, strs)
          IN /\ mem' = r.m
             /\ cur' = [what |-> "Array", ctl |-> ctl, ty |-> "Strand", inp |-> strs,
                        st |-> r.st, ta |-> r.x, wire |-> <<>>, n |-> 0,
                        mid |-> mem, sent |-> 0]
             /\ pc' = IF r.st = "ok" THEN "encoded" ELSE "failed"

\* Vec::<Strand>::from_transferrable(TransferredArray { ptr, len }, controller)
ArrayDecode ==
    /\ pc = "encoded"
    /\ cur.what = "Array"
    /\ \E len \in DeclaredLens(cur.ty, cur.ta.len) :
          LET r == VecFrom(cur.ctl, mem, cur.ty, TArr(cur.ta.ptr, len))
          IN /\ mem' = r.m
             /\ cur' = [cur EXCEPT !.st = r.st, !.wire = TArr(cur.ta.ptr, len),
                                   !.n = Len(r.x), !.mid = mem,
                                   !.sent = Len(mem.log)]
             /\ pc' = "decoded"

NextArray ==
    \/ NewInstance
    \/ ArrayEncode
    \/ ArrayDecode

SpecArray == InitArray /\ [][NextArray]_vars

\* C29: the decode of a TransferredArray<T> of len elements asks mut_mem
\* for exactly len * sizeof(T) bytes and frees exactly that many, also when
\* the product does not fit 32 bits; otherwise it fails and leaves the
\* memory as it was.
ArrayBytesAreLenTimesSize ==
    (pc = "decoded" /\ cur.what = "Array" /\ cur.ctl \in {"host", "outer"}) =>
       \/ /\ cur.st = "ok"
          /\ cur.n = cur.wire.len
          /\ \A i \in EventsSince(mem, cur.sent) :
                mem.log[i].len = cur.wire.len * SizeOf(cur.ty)
       \/ /\ cur.st # "ok"
          /\ mem = cur.mid


(***************************************************************************)
(* The Arg trait (surrealism-types/src/arg.rs): is_value, from_value and   *)
(* to_value of a native type, given by a descriptor of the type.  SpecArg  *)
(* draws a type and a native value of it, converts the value with          *)
(* to_value, asks is_value and converts back with from_value.              *)
(***************************************************************************)
TyBool == [k |-> "bool"]
TyI64 == [k |-> "i64"]
TyString == [k |-> "String"]
TyValue == [k |-> "Value"]
TyUnit == [k |-> "unit"]
TyVec(t) == [k |-> "Vec", of |-> t]
TyOption(t) == [k |-> "Option", of |-> t]
TyEither2(a, b) == [k |-> "Either2", a |-> a, b |-> b]
TyTuple(ts) == [k |-> "Tuple", of |-> ts]

\* native values
NatBool(b) == [n |-> "bool", b |-> b]
NatI64(i) == [n |-> "i64", i |-> i]
NatString(s) == [n |-> "String", s |-> s]
NatValue(v) == [n |-> "Value", v |-> v]
NatUnit == [n |-> "unit"]
NatVec(xs) == [n |-> "Vec", xs |-> xs]
NatNone == [n |-> "None"]
NatSome(x) == [n |-> "Some", x |-> x]
EitherA(x) == [n |-> "A", x |-> x]
EitherB(x) == [n |-> "B", x |-> x]
NatTuple(xs) == [n |-> "Tuple", xs |-> xs]

ArgOk(x) == [st |-> "ok", x |-> x]
ArgErr == [st |-> "err", x |-> [n |-> "none"]]

RECURSIVE to_value(_, _)
to_value(ty, x) ==
    CASE ty.k = "bool" -> VBool(x.b)
      [] ty.k = "i64" -> VInt(x.i)
      [] ty.k = "String" -> VStrand(x.s)
      [] ty.k = "Value" -> x.v
      [] ty.k = "unit" -> VArray(<<>>)
      [] ty.k = "Vec" -> VArray([i \in DOMAIN x.xs |-> to_value(ty.of, x.xs[i])])
      [] ty.k = "Option" -> IF x.n = "None" THEN VNone ELSE to_value(ty.of, x.x)
      [] ty.k = "Either2" -> IF x.n = "A" THEN to_value(ty.a, x.x) ELSE to_value(ty.b, x.x)
      [] ty.k = "Tuple" -> VArray([i \in DOMAIN x.xs |-> to_value(ty.of[i], x.xs[i])])

RECURSIVE is_value(_, _)
is_value(ty, v) ==
    CASE ty.k = "bool" -> v.t = "Bool"
      [] ty.k = "i64" -> v.t = "Number" /\ v.n.k = "Int"
      [] ty.k = "String" -> v.t = "Strand"
      [] ty.k = "Value" -> TRUE
      [] ty.k = "unit" -> v.t = "Array" /\ Len(v.a) = 0
      [] ty.k = "Vec" -> v.t = "Array" /\ \A i \in DOMAIN v.a : is_value(ty.of, v.a[i])
      [] ty.k = "Option" -> v.t = "None" \/ is_value(ty.of, v)
      [] ty.k = "Either2" -> is_value(ty.a, v) \/ is_value(ty.b, v)
      [] ty.k = "Tuple" ->
            /\ v.t = "Array"
            /\ Len(v.a) = Len(ty.of)
            /\ \A i \in DOMAIN v.a : is_value(ty.of[i], v.a[i])

\* .map(..).collect::<Result<Vec<_>>>(): the items, or the first failure
CollectArgs(rs) ==
    IF \E i \in DOMAIN rs : rs[i].st # "ok" THEN ArgErr
    ELSE ArgOk([i \in DOMAIN rs |-> rs[i].x])

RECURSIVE from_value(_, _)
from_value(ty, v) ==
    CASE ty.k = "bool" -> IF v.t = "Bool" THEN ArgOk(NatBool(v.b)) ELSE ArgErr
      [] ty.k = "i64" ->
            IF v.t = "Number" /\ v.n.k = "Int" THEN ArgOk(NatI64(v.n.i)) ELSE ArgErr
      [] ty.k = "String" -> IF v.t = "Strand" THEN ArgOk(NatString(v.s)) ELSE ArgErr
      [] ty.k = "Value" -> ArgOk(NatValue(v))
      [] ty.k = "unit" -> IF v.t = "Array" /\ Len(v.a) = 0 THEN ArgOk(NatUnit) ELSE ArgErr
      [] ty.k = "Vec" ->
            IF v.t # "Array" THEN ArgErr
            ELSE Bind(CollectArgs([i \in DOMAIN v.a |-> from_value(ty.of, v.a[i])]), LAMBDA r :
                 IF r.st = "ok" THEN ArgOk(NatVec(r.x)) ELSE ArgErr)
      [] ty.k = "Option" ->
            IF v.t = "None" THEN ArgOk(NatNone)
            ELSE Bind(from_value(ty.of, v), LAMBDA r :
                 IF r.st = "ok" THEN ArgOk(NatSome(r.x)) ELSE ArgErr)
      [] ty.k = "Either2" ->
            IF is_value(ty.a, v)
            THEN Bind(from_value(ty.a, v), LAMBDA r :
                 IF r.st = "ok" THEN ArgOk(EitherA(r.x)) ELSE ArgErr)
            ELSE IF is_value(ty.b, v)
            THEN Bind(from_value(ty.b, v), LAMBDA r :
                 IF r.st = "ok" THEN ArgOk(EitherB(r.x)) ELSE ArgErr)
            ELSE ArgErr
      [] ty.k = "Tuple" ->
            IF v.t # "Array" THEN ArgErr
            ELSE IF Len(v.a) # Len(ty.of) THEN ArgErr
            ELSE Bind(CollectArgs([i \in DOMAIN v.a |-> from_value(ty.of[i], v.a[i])]), LAMBDA r :
                 IF r.st = "ok" THEN ArgOk(NatTuple(r.x)) ELSE ArgErr)

\* the types and the native values SpecArg draws
ArgTys ==
    {TyBool, TyI64, TyString, TyValue, TyUnit,
     TyVec(TyI64), TyVec(TyOption(TyI64)), TyVec(TyValue),
     TyOption(TyI64), TyOption(TyOption(TyI64)), TyOption(TyValue), TyOption(TyUnit),
     TyEither2(TyI64, TyString), TyEither2(TyValue, TyI64),
     TyEither2(TyOption(TyI64), TyOption(TyString)),
     TyEither2(TyVec(TyI64), TyTuple(<<TyI64>>)),
     TyTuple(<<TyBool>>), TyTuple(<<TyString, TyI64>>), TyTuple(<<TyOption(TyI64), TyBool>>)}

RECURSIVE Natives(_)
Natives(ty) ==
    CASE ty.k = "bool" -> {NatBool(b) : b \in BOOLEAN}
      [] ty.k = "i64" -> {NatI64(i) : i \in {-1, 7}}
      [] ty.k = "String" -> {NatString(s) : s \in {<<>>, <<97>>}}
      [] ty.k = "Value" -> {NatValue(v) : v \in {VNone, VNull, VInt(7), VArray(<<>>)}}
      [] ty.k = "unit" -> {NatUnit}
      [] ty.k = "Vec" -> {NatVec(xs) : xs \in SeqsUpTo(Natives(ty.of), MaxLen)}
      [] ty.k = "Option" -> {NatNone} \cup {NatSome(x) : x \in Natives(ty.of)}
      [] ty.k = "Either2" ->
            {EitherA(x) : x \in Natives(ty.a)} \cup {EitherB(x) : x \in Natives(ty.b)}
      [] ty.k = "Tuple" ->
            IF Len(ty.of) = 1
            THEN {NatTuple(<<x>>) : x \in Natives(ty.of[1])}
            ELSE {NatTuple(<<x, y>>) : x \in Natives(ty.of[1]), y \in Natives(ty.of[2])}

InitArg ==
    /\ mem = NewMem(0, FALSE)
    /\ pc = "idle"
    /\ cur = Idle

\* x.to_value()
ArgToValue ==
    /\ pc = "idle"
    /\ \E ty \in ArgTys :
       \E x \in Natives(ty) :
          cur' = [what |-> "Arg", ty |-> ty, x |-> x, v |-> to_value(ty, x),
                  is |-> FALSE, back |-> ArgErr]
    /\ pc' = "valued"
    /\ UNCHANGED mem

\* T::is_value(&v)
ArgIsValue ==
    /\ pc = "valued"
    /\ cur' = [cur EXCEPT !.is = is_value(cur.ty, cur.v)]
    /\ pc' = "asked"
    /\ UNCHANGED mem

\* T::from_value(v)
ArgFromValue ==
    /\ pc = "asked"
    /\ cur' = [cur EXCEPT !.back = from_value(cur.ty, cur.v)]
    /\ pc' = "converted"
    /\ UNCHANGED mem

ArgNext ==
    /\ pc = "converted"
    /\ cur' = Idle
    /\ pc' = "idle"
    /\ UNCHANGED mem

NextArg ==
    \/ ArgToValue
    \/ ArgIsValue
    \/ ArgFromValue
    \/ ArgNext

SpecArg == InitArg /\ [][NextArg]_vars

\* C30: for every type T with an Arg implementation and every x of T,
\* T::is_value(&x.to_value()) holds and T::from_value(x.to_value()) gives
\* x back, nested options and overlapping Either variants included.
ArgValueRoundTrip ==
    (pc = "converted" /\ cur.what = "Arg") =>
       /\ cur.is
       /\ cur.back.st = "ok"
       /\ cur.back.x = cur.x

====
